---- MODULE Spec2Model ----
(***************************************************************************)
(* monday-mcp: the webhook handler that propagates a subitem -> main link  *)
(* to a main -> feature link, its retrying GraphQL client and the /webhook *)
(* route.                                                                  *)
(*                                                                         *)
(* JavaScript runs each handler to its next await without interruption,    *)
(* so one action of the model is one such run: from the delivery of a      *)
(* request, or from the settling of the awaited fetch or sleep, to the     *)
(* next await or to the return.                                            *)
(*                                                                         *)
(* The repository holds two copies of handleWebhookEvent: the one in       *)
(* src/unnamed/part_000 ("current": accepts the subitem and the feature    *)
(* board, falls back to the event's parent fields) and the one in          *)
(* src/src/webhook-handler.ts ("legacy": subitem board only, parent from   *)
(* the lookup only).  handlerSrc says which copy the process runs.         *)
(***************************************************************************)
EXTENDS Integers, Sequences, FiniteSets, TLC

\* ------------------------------------------------------------------ config

\* config.boards (the last three digits of each id: TLC's integers are 32 bit)
boards_subitem == 160
boards_feature == 957
boards_main == 587

\* config.columns
columns_subitemToMain == "board_relation_mkw4vrjt"
columns_mainToFeature == "board_relation_mkw8vvdh"

\* config.port: the port of parseInt(process.env.PORT || '3001', 10)
config_port_default == 3001

\* README, Environment Variables: PORT, "Server port (default: 3000)"
readme_port_default == 3000

\* config.retry
retry_maxAttempts == 3
retry_baseDelayMs == 1000
retry_maxDelayMs == 10000

\* ------------------------------------------------------------------ bounds

\* Deliveries one process handles, one after the other.
MaxDeliveries == 2

\* The attempt numbers the backoff delay is computed for.
MaxBackoffAttempt == 5

\* The item ids of the runs: a subitem, two feature items, two main items.
SampleIds ==
  [S1 |-> 21, S2 |-> 22, P1 |-> 31, P2 |-> 32, M1 |-> 41, M2 |-> 42]
S1 == SampleIds.S1
S2 == SampleIds.S2
P1 == SampleIds.P1
P2 == SampleIds.P2
M1 == SampleIds.M1
M2 == SampleIds.M2
MainItems == {M1, M2}

Procs == {1, 2}

\* Webhooks the register script creates in one run of the model.
MaxWebhooks == 2
HandlerSrcs == {"current", "legacy"}

\* ------------------------------------------------------------- pure helpers

\* a || b on numbers: 0 (like undefined) is falsy.
OrElse(a, b) == IF a # 0 THEN a ELSE b

Range(s) == {s[i] : i \in 1..Len(s)}

Min(a, b) == IF a <= b THEN a ELSE b

Last(s) == s[Len(s)]

NoDuplicates(s) == \A i, j \in 1..Len(s) : s[i] = s[j] => i = j

RECURSIVE Pow2(_)
Pow2(n) == IF n <= 0 THEN 1 ELSE 2 * Pow2(n - 1)

\* String(n) for a non-negative integer, as its sequence of decimal digits.
RECURSIVE ToDigits(_)
ToDigits(n) == IF n < 10 THEN <<n>> ELSE Append(ToDigits(n \div 10), n % 10)

\* parseInt(s, 10) of a digit string.
RECURSIVE ParseInt(_)
ParseInt(s) ==
  IF Len(s) = 0 THEN 0
  ELSE 10 * ParseInt(SubSeq(s, 1, Len(s) - 1)) + s[Len(s)]

\* Mutant of Dedupe: the list is spread without passing through a Set.
Dedupe_None(s) == s

\* [...new Set(s)]: the first occurrence of each element, in order.
RECURSIVE Dedupe(_)
Dedupe(s) ==
  IF Len(s) = 0 THEN <<>>
  ELSE LET init == Dedupe(SubSeq(s, 1, Len(s) - 1))
           last == s[Len(s)]
       IN IF last \in Range(init) THEN init ELSE Append(init, last)

\* Mutant of Includes: only the first linked id is compared.
Includes_FirstOnly(s, x) == Len(s) > 0 /\ s[1] = x

\* existingLinkedIds.includes(parentId)
Includes(s, x) == \E i \in 1..Len(s) : s[i] = x

\* Mutant of MergeLinkedIds: parentId is left out of the merged list.
MergeLinkedIds_DropParent(existingLinkedIds, parentId) ==
  Dedupe(existingLinkedIds)

\* Mutant of MergeLinkedIds: the first id of the list read is left out.
MergeLinkedIds_DropFirst(existingLinkedIds, parentId) ==
  Dedupe(Append(SubSeq(existingLinkedIds, 2, Len(existingLinkedIds)), parentId))

\* Mutant of MergeLinkedIds: the write carries the new id alone, as a delta.
MergeLinkedIds_Delta(existingLinkedIds, parentId) == <<parentId>>

\* [...new Set([...existingLinkedIds, parentId])]
MergeLinkedIds(existingLinkedIds, parentId) ==
  Dedupe(Append(existingLinkedIds, parentId))

\* ------------------------------------------------------------ remote values

\* The raw value of the main -> feature column of a main item, as the API
\* returns it: kind "linked" is {"linkedPulseIds": [{linkedPulseId}, ..]};
\* "noItem" (items is empty), "noColumn" (the item has no such column),
\* "null" (the column's value is null), "badJson" (not JSON), "noArray"
\* (JSON without linkedPulseIds) and "notArray" (linkedPulseIds is not an
\* array) are the other answers a successful response can carry.
Linked(ids) == [kind |-> "linked", ids |-> ids]
Raw(kind) == [kind |-> kind, ids |-> <<>>]
UndecodableKinds ==
  {"noItem", "noColumn", "null", "badJson", "noArray", "notArray"}

\* What getMainItemLinkedIds returns for a successful response: the checks
\* of the function, in its order.
DecodeLinkedIds(raw) ==
  IF raw.kind = "noItem" THEN <<>>
  ELSE IF raw.kind \in {"noColumn", "null"} THEN <<>>
  ELSE IF raw.kind = "badJson" THEN <<>>
  ELSE IF raw.kind = "linked" THEN raw.ids
  ELSE <<>>

\* The relation set a raw value stands for.
LinkedSet(raw) == Range(DecodeLinkedIds(raw))

\* Mutant of ApplyWrite: the ids of the mutation are appended to the column
\* (a delta).
ApplyWrite_Append(rem, item, ids) ==
  [rem EXCEPT ![item] = Linked(DecodeLinkedIds(rem[item]) \o ids)]

\* Mutant of ApplyWrite: the ids of the mutation are added to the ids the
\* column holds.
ApplyWrite_Union(rem, item, ids) ==
  [rem EXCEPT ![item] = Linked(Dedupe(DecodeLinkedIds(rem[item]) \o ids))]

\* change_column_value with {"item_ids": ids}: the column holds exactly ids.
ApplyWrite(rem, item, ids) == [rem EXCEPT ![item] = Linked(ids)]

\* The remote states a run starts from.
InitialRemotes ==
  { [m \in MainItems |-> Linked(<<>>)],
    [m \in MainItems |-> IF m = M1 THEN Linked(<<P1>>) ELSE Linked(<<>>)],
    [m \in MainItems |-> IF m = M1 THEN Linked(<<P2, P2>>) ELSE Linked(<<P1>>)],
    [m \in MainItems |-> IF m = M1 THEN Raw("badJson") ELSE Linked(<<P2, P2>>)] }

\* What the subitem lookup can answer: no item, an item without parent_item,
\* or an item whose parent_item carries its id and board id as strings.
NoParent == [id |-> <<>>, board |-> <<>>]
SubitemAnswers ==
  { [found |-> FALSE, hasParent |-> FALSE, parent_item |-> NoParent],
    [found |-> TRUE, hasParent |-> FALSE, parent_item |-> NoParent],
    [found |-> TRUE, hasParent |-> TRUE,
     parent_item |-> [id |-> ToDigits(P1), board |-> ToDigits(boards_feature)]],
    [found |-> TRUE, hasParent |-> TRUE,
     parent_item |-> [id |-> ToDigits(P1), board |-> ToDigits(boards_main)]] }

\* How an attempt of mondayQuery fails: fetch throws, the status is not OK,
\* the body lists errors, the body has no data.
FailureKinds == {"transport", "http", "graphqlErrors", "noData"}

\* Math.random() * 500 lies in [0, 500).
Jitters == {0, 499}

\* What one request of mondayQuery comes back with: fetch throws, or there
\* is a response with its ok flag and a body whose errors are absent, an
\* empty list or a non-empty list, and whose data is there or not.
Response(threw, ok, errors, hasData) ==
  [threw |-> threw, ok |-> ok, errors |-> errors, hasData |-> hasData]

NoResponse == Response(FALSE, FALSE, "none", FALSE)
FetchThrows == Response(TRUE, FALSE, "absent", FALSE)
GoodResponse == Response(FALSE, TRUE, "absent", TRUE)

Responses ==
  {FetchThrows} \cup
  { Response(FALSE, ok, errors, hasData) :
      ok \in BOOLEAN, errors \in {"absent", "empty", "some"},
      hasData \in BOOLEAN }

\* Mutant of Classify: a body without data passes as long as it lists no
\* error.
Classify_DataUnchecked(resp) ==
  IF resp.threw THEN "transport"
  ELSE IF ~resp.ok THEN "http"
  ELSE IF resp.errors = "some" THEN "graphqlErrors"
  ELSE "ok"

\* The checks of mondayQuery on one request, in their order: what the
\* attempt ends as.
Classify(resp) ==
  IF resp.threw THEN "transport"
  ELSE IF ~resp.ok THEN "http"
  ELSE IF resp.errors = "some" THEN "graphqlErrors"
  ELSE IF ~resp.hasData THEN "noData"
  ELSE "ok"

\* The responses and the jitter drawn where deliveries follow one another:
\* the catch of mondayQuery treats every failure alike, so one failure
\* without a response and one with a response stand for all of them.
SeqResponses ==
  {GoodResponse, FetchThrows, Response(FALSE, TRUE, "some", TRUE)}
SeqJitters == {0}

\* ----------------------------------------------------------------- payloads

NoList == <<>>

\* The x-monday-signature header of a request: absent, or a string, here a
\* sequence of base64 digits.
NoHeader == [present |-> FALSE, value |-> <<>>]
Header(value) == [present |-> TRUE, value |-> value]

Challenge(token) ==
  [isChallenge |-> TRUE, challenge |-> token, hasEvent |-> FALSE,
   boardId |-> 0, pulseId |-> 0, subitemId |-> 0, parentItemId |-> 0, parentItemBoardId |-> 0,
   columnId |-> "", valueKind |-> "undefined", linkedPulseIds |-> NoList,
   signature |-> NoHeader]

\* event.value is undefined, has no linkedPulseIds, or has the list.
Event(b, pu, su, pa, pb, c, vk, ids) ==
  [isChallenge |-> FALSE, challenge |-> "", hasEvent |-> TRUE,
   boardId |-> b, pulseId |-> pu, subitemId |-> su, parentItemId |-> pa, parentItemBoardId |-> pb,
   columnId |-> c, valueKind |-> vk, linkedPulseIds |-> ids,
   signature |-> NoHeader]

ValueChoices ==
  { <<"undefined", NoList>>, <<"noLinkedPulseIds", NoList>>,
    <<"linkedPulseIds", <<>> >>, <<"linkedPulseIds", <<M1>> >>,
    <<"linkedPulseIds", <<M1, M2>> >>, <<"linkedPulseIds", <<M1, M1>> >> }

\* Events that differ in what the scope checks read: the board, the column
\* and the value.  The subject is that of a change_subitem_column_value
\* event: pulseId the parent, subitemId the subitem.
ScopeEvents ==
  { Event(b, P1, S1, 0, 0, c, v[1], v[2]) :
      b \in {boards_subitem, boards_feature, boards_main},
      c \in {columns_subitemToMain, columns_mainToFeature},
      v \in ValueChoices }

\* Events in scope that differ in what the parent resolution reads: the
\* subject (the subitem on the subitem board, the parent on the feature
\* board, or no pulseId), subitemId, and the nested parent fields (absent,
\* complete, or partial).
SubjectChoices ==
  { <<boards_subitem, S1>>, <<boards_feature, P1>>, <<boards_feature, 0>> }

NestedChoices ==
  { <<0, 0>>, <<P2, boards_feature>>, <<P2, boards_main>>, <<P2, 0>> }

ResolutionEvents ==
  { Event(s[1], s[2], su, n[1], n[2], columns_subitemToMain,
          "linkedPulseIds", <<M1>>) :
      s \in SubjectChoices, su \in {0, S1}, n \in NestedChoices }

Events == ScopeEvents \cup ResolutionEvents

\* Challenge payloads that carry the fields of an event as well: one in
\* scope, one from a board the configuration does not name.
ChallengeWithEvent(token, b) ==
  [Event(b, S1, 0, 0, 0, columns_subitemToMain, "linkedPulseIds", <<M1>>)
     EXCEPT !.isChallenge = TRUE, !.challenge = token]

Challenges ==
  { Challenge("tok"), ChallengeWithEvent("tok2", boards_subitem),
    ChallengeWithEvent("tok3", boards_main) }

\* A body with neither a challenge nor an event (express.json() gives {}
\* for an empty body).
NoEvent == [Challenge("") EXCEPT !.isChallenge = FALSE]

Payloads == Events \cup Challenges \cup {NoEvent}

\* The events drawn where the attempts of mondayQuery are looked at: in
\* scope, with one and with two linked main items.
RetryPayloads ==
  { Event(boards_subitem, S1, 0, 0, 0, columns_subitemToMain,
          "linkedPulseIds", ids) : ids \in {<<M1>>, <<M1, M2>>} }

NoPayload == Challenge("")

\* The payload is an event: payload.event is there to be read.
IsEvent(payload) == ~payload.isChallenge /\ payload.hasEvent

\* ------------------------------------------------------ the signature gate

\* What the digest reads of the raw body: everything but the headers.
BodyHash(payload) ==
  IF payload.isChallenge THEN 1
  ELSE IF ~payload.hasEvent THEN 2
  ELSE payload.boardId + payload.pulseId + payload.subitemId
       + Len(payload.linkedPulseIds)

\* crypto.createHmac('sha256', secret).update(req.rawBody || '')
\*   .digest('base64'): a string of fixed length that depends on the secret
\* and on the body; two base64 digits stand for the 44 of the digest.
Hmac(secret, payload) ==
  <<(secret + BodyHash(payload)) % 3, (2 * secret + BodyHash(payload) + 1) % 3>>

\* crypto.timingSafeEqual(a, b) throws a RangeError when the byte lengths
\* of its arguments differ, and compares them otherwise.
TimingSafeEqual(a, b) ==
  IF Len(a) # Len(b) THEN "throws" ELSE IF a = b THEN "true" ELSE "false"

\* verifySignature(req): "true", "false", or "throws".
VerifySignature(secret, payload) ==
  IF secret = 0 THEN "true"
  ELSE IF ~payload.signature.present \/ payload.signature.value = <<>>
       THEN "false"
  ELSE TimingSafeEqual(payload.signature.value, Hmac(secret, payload))

\* The request carries the signature header `sig`.
Signed(payload, sig) == [payload EXCEPT !.signature = sig]

\* The request's signature header is the HMAC of its body under the secret.
WellSigned(secret, payload) ==
  payload.signature = Header(Hmac(secret, payload))

\* The headers a request can carry: none, an empty one, the digest, a string
\* of the digest's length that differs from it, and a shorter and a longer
\* string that start as the digest does.
Signatures(secret, payload) ==
  LET d == Hmac(secret, payload)
  IN  { NoHeader, Header(<<>>), Header(d),
        Header(<<d[1], (d[2] + 1) % 3>>),
        Header(<<d[1]>>), Header(d \o <<0>>) }

\* ------------------------------------------------- the handler's decisions

\* const subitemId = event.subitemId || event.pulseId   (legacy: event.pulseId)
SubitemIdOf(src, e) ==
  IF src = "current" THEN OrElse(e.subitemId, e.pulseId) ELSE e.pulseId

\* The board check.
BoardAccepted(src, e) ==
  IF src = "current"
  THEN e.boardId = boards_subitem \/ e.boardId = boards_feature
  ELSE e.boardId = boards_subitem

\* Mutant of ColumnAccepted: the check is missing.
ColumnAccepted_Any(e) == TRUE

\* Mutant of ColumnAccepted: the event is compared with the other column.
ColumnAccepted_MainToFeature(e) == e.columnId = columns_mainToFeature

\* The column check.
ColumnAccepted(e) == e.columnId = columns_subitemToMain

\* event.value?.linkedPulseIds?.map(p => p.linkedPulseId) || []
LinkedMainItemIdsOf(e) ==
  IF e.valueKind = "linkedPulseIds" THEN e.linkedPulseIds ELSE <<>>

\* ------------------------------------------------------------------- state

VARIABLES
  handlerSrc,  \* which copy of handleWebhookEvent runs
  dryRun,      \* config.dryRun
  remote,      \* main item id -> raw value of its main -> feature column
  pc,          \* per request: "idle", "fetching" (a request of mondayQuery is
               \* in flight) or "sleeping" (its backoff delay)
  event,       \* the payload, while the handler still reads it
  local,       \* the locals of handleWebhookEvent
  query,       \* the frame of mondayQuery
  out,         \* what the /webhook route answered
  hist,        \* what the request has sent so far
  delivered,   \* number of deliveries each process has taken
  envPort,     \* process.env.PORT
  listening,   \* the port app.listen was called with, 0 before the call
  registerSrc, \* which copy of the register script is run
  webhooks,    \* the webhook subscriptions of the account
  created,     \* the id of the latest subscription the register script made
  console,     \* what the latest run of a script printed
  signingSecret \* config.webhookSigningSecret, 0 when it is not set

handlerVars ==
  <<handlerSrc, dryRun, remote, pc, event, local, query, out, hist, delivered>>

opsVars ==
  <<envPort, listening, registerSrc, webhooks, created, console, signingSecret>>

vars ==
  <<handlerSrc, dryRun, remote, pc, event, local, query, out, hist, delivered,
    envPort, listening, registerSrc, webhooks, created, console,
    signingSecret>>

NoSubitem == [found |-> FALSE, hasParent |-> FALSE, parent_item |-> NoParent]

NoLocal ==
  [subitemId |-> 0, subitem |-> NoSubitem, parentId |-> 0, parentBoardId |-> 0,
   linkedMainItemIds |-> <<>>, idx |-> 0, existingLinkedIds |-> <<>>,
   mergedLinkedIds |-> <<>>, updatedCount |-> 0, skippedCount |-> 0]

NoQuery == [call |-> "none", attempt |-> 0, lastError |-> "none", delay |-> 0]

NoOut ==
  [kind |-> "none", status |-> 0, challenge |-> "", success |-> FALSE,
   message |-> "", updatedCount |-> 0, skippedCount |-> 0,
   requestId |-> 0]

\* requests: attempts sent; reads: calls of getMainItemLinkedIds; writes: the
\* variables of each call of updateMainItemLinks; results: how each entry of
\* the list ended; startConsistent: every listed main item already held the
\* parent when the loop began; sent, failed: the requests the latest call of
\* mondayQuery has sent and those of them that failed; response: what the
\* latest request that came back came back with; applied: a failed attempt
\* of the latest call was a write the remote side had applied; inFlight:
\* requests sent that have not come back; readItems: the main items read, in
\* the order of the reads; requestId: the route's id of the request; invoked:
\* the route called handleWebhookEvent for the request; signed: the request's
\* signature header was the HMAC of its body under the secret.
NoHist ==
  [requests |-> 0, reads |-> 0, writes |-> <<>>, results |-> <<>>,
   startConsistent |-> FALSE, sent |-> 0, failed |-> 0, response |-> NoResponse,
   applied |-> FALSE, inFlight |-> 0, readItems |-> <<>>, requestId |-> 0,
   invoked |-> FALSE, signed |-> FALSE]

\* generateRequestId(): one id per request the route takes.
RequestId(p, n) == 10 * p + n

\* process.env.PORT: not set, or set to a string of digits (empty included).
EnvVar(set, value) == [set |-> set, value |-> value]
Unset == EnvVar(FALSE, <<>>)
EnvPorts ==
  { Unset, EnvVar(TRUE, <<>>), EnvVar(TRUE, ToDigits(readme_port_default)),
    EnvVar(TRUE, ToDigits(8080)) }

\* parseInt(process.env.PORT || '3001', 10): an unset and an empty PORT are
\* both falsy.
ConfigPort(env) ==
  ParseInt(IF env.set /\ Len(env.value) > 0 THEN env.value
           ELSE ToDigits(config_port_default))

RegisterSrcs == {"part_001", "part_002"}

Webhook(id, board_id, ev) == [id |-> id, board_id |-> board_id, event |-> ev]

\* What a script printed: which script, whether the API answered without
\* errors, and the webhook ids on its output.
Printed(script, ok, ids) == [script |-> script, ok |-> ok, ids |-> ids]
NoConsole == Printed("none", FALSE, {})

\* The subscriptions an account can hold before the scripts are run.
InitialWebhooks ==
  { {}, {Webhook(9, boards_subitem, "change_column_value")},
    {Webhook(8, boards_main, "create_item")} }

\* The server is up with PORT unset and no script has run.
ServerUp ==
  /\ envPort = Unset
  /\ listening = ConfigPort(Unset)
  /\ registerSrc = "part_002"
  /\ webhooks = {}
  /\ created = 0
  /\ console = NoConsole

\* WEBHOOK_SIGNING_SECRET is not set: process.env.WEBHOOK_SIGNING_SECRET || ''
OpsIdle ==
  /\ ServerUp
  /\ signingSecret = 0

HandlerIdle ==
  /\ pc = [p \in Procs |-> "idle"]
  /\ event = [p \in Procs |-> NoPayload]
  /\ local = [p \in Procs |-> NoLocal]
  /\ query = [p \in Procs |-> NoQuery]
  /\ out = [p \in Procs |-> NoOut]
  /\ hist = [p \in Procs |-> NoHist]
  /\ delivered = [p \in Procs |-> 0]

Init ==
  /\ OpsIdle
  /\ handlerSrc \in HandlerSrcs
  /\ dryRun \in BOOLEAN
  /\ remote \in InitialRemotes
  /\ HandlerIdle

\* ------------------------------------------------------------ route answers

\* res.json({ challenge })
ChallengeOut(token) ==
  [kind |-> "challenge", status |-> 200, challenge |-> token, success |-> FALSE,
   message |-> "", updatedCount |-> 0, skippedCount |-> 0,
   requestId |-> 0]

\* res.json({ success, message })
ResultOut(success, message) ==
  [kind |-> "result", status |-> 200, challenge |-> "", success |-> success,
   message |-> message, updatedCount |-> 0, skippedCount |-> 0,
   requestId |-> 0]

\* Mutant of SummaryOut: success only when some entry was updated or skipped.
SummaryOut_FailWhenNone(u, s) ==
  [kind |-> "result", status |-> 200, challenge |-> "", success |-> u + s > 0,
   message |-> "Updated", updatedCount |-> u, skippedCount |-> s,
   requestId |-> 0]

\* res.json({ success: true, message: `Updated ${u} main items, skipped ${s}` })
SummaryOut(u, s) ==
  [kind |-> "result", status |-> 200, challenge |-> "", success |-> TRUE,
   message |-> "Updated", updatedCount |-> u, skippedCount |-> s,
   requestId |-> 0]

\* res.status(401).json({ error: 'Invalid signature' })
UnauthorizedOut ==
  [kind |-> "result", status |-> 401, challenge |-> "", success |-> FALSE,
   message |-> "Invalid signature", updatedCount |-> 0, skippedCount |-> 0,
   requestId |-> 0]

\* What a request gets when verifySignature throws.  The call is outside
\* the route's try and the route is an async function, so the throw rejects
\* the promise the route returns: Express 5 hands the rejection to the
\* catch-all middleware, which answers 500 { error: 'Internal server error' };
\* Express 4 ignores the promise and the request gets no answer.
ThrowOutcomes ==
  { NoOut,
    [kind |-> "result", status |-> 500, challenge |-> "", success |-> FALSE,
     message |-> "", updatedCount |-> 0, skippedCount |-> 0,
     requestId |-> 0] }

\* Mutant of ErrorOut: the answer of the catch-all error middleware,
\* { error: 'Internal server error' }.
ErrorOut_Middleware(requestId) ==
  [kind |-> "result", status |-> 500, challenge |-> "", success |-> FALSE,
   message |-> "", updatedCount |-> 0, skippedCount |-> 0,
   requestId |-> 0]

\* The route's catch: res.status(500).json({ success: false, .., requestId })
ErrorOut(requestId) ==
  [kind |-> "result", status |-> 500, challenge |-> "", success |-> FALSE,
   message |-> "Internal server error", updatedCount |-> 0, skippedCount |-> 0,
   requestId |-> requestId]

\* ------------------------------------------------------------- mondayQuery

\* Mutant of FirstAttempt: the loop counts its attempts from 0.
FirstAttempt_FromZero(call) ==
  [call |-> call, attempt |-> 0, lastError |-> "none", delay |-> 0]

\* The frame of a call of mondayQuery whose first request has just been sent.
FirstAttempt(call) ==
  [call |-> call, attempt |-> 1, lastError |-> "none", delay |-> 0]

\* Mutant of BackoffDelay: the exponent is attempt, not attempt - 1.
BackoffDelay_FromTwo(attempt, jitter) ==
  Min(retry_baseDelayMs * Pow2(attempt) + jitter, retry_maxDelayMs)

\* Math.min(baseDelayMs * Math.pow(2, attempt - 1) + jitter, maxDelayMs)
BackoffDelay(attempt, jitter) ==
  Min(retry_baseDelayMs * Pow2(attempt - 1) + jitter, retry_maxDelayMs)

\* The main item the loop is at.
CurrentItem(loc) == loc.linkedMainItemIds[loc.idx]

\* Mutant of WriteRequest: the column of the mutation is the subitem -> main
\* column.
WriteRequest_SubitemColumn(mainItemId, boardId, linkedItemIds) ==
  [itemId |-> mainItemId, boardId |-> boardId,
   columnId |-> columns_subitemToMain, item_ids |-> linkedItemIds]

\* The variables of the change_column_value mutation.
WriteRequest(mainItemId, boardId, linkedItemIds) ==
  [itemId |-> mainItemId, boardId |-> boardId,
   columnId |-> columns_mainToFeature, item_ids |-> linkedItemIds]

\* The remote state after an attempt that failed: a write whose response was
\* lost or was an error may still have been applied.
AfterFailedAttempt(p, applied) ==
  IF query[p].call = "updateMainItemLinks" /\ applied
  THEN ApplyWrite(remote, CurrentItem(local[p]), local[p].mergedLinkedIds)
  ELSE remote

\* ------------------------------------------------- handleWebhookEvent, parts

\* Mutant of ResolveParent: the event's nested parent fields are looked at
\* before the parent of the lookup.
ResolveParent_EventFirst(src, e, ans) ==
  IF src = "current" /\ e.parentItemId # 0 /\ e.parentItemBoardId # 0
  THEN [ok |-> TRUE, from |-> "nested",
        parentId |-> e.parentItemId, parentBoardId |-> e.parentItemBoardId]
  ELSE IF ans.hasParent
  THEN [ok |-> TRUE, from |-> "lookup",
        parentId |-> ParseInt(ans.parent_item.id),
        parentBoardId |-> ParseInt(ans.parent_item.board)]
  ELSE IF src = "current" /\ e.pulseId # 0 /\ e.boardId # 0
  THEN [ok |-> TRUE, from |-> "topLevel",
        parentId |-> e.pulseId, parentBoardId |-> e.boardId]
  ELSE [ok |-> FALSE, from |-> "none", parentId |-> 0, parentBoardId |-> 0]

\* The parent the handler settles on after the lookup answered `ans`.
ResolveParent(src, e, ans) ==
  IF ans.hasParent
  THEN [ok |-> TRUE, from |-> "lookup",
        parentId |-> ParseInt(ans.parent_item.id),
        parentBoardId |-> ParseInt(ans.parent_item.board)]
  ELSE IF src = "current" /\ e.parentItemId # 0 /\ e.parentItemBoardId # 0
  THEN [ok |-> TRUE, from |-> "nested",
        parentId |-> e.parentItemId, parentBoardId |-> e.parentItemBoardId]
  ELSE IF src = "current" /\ e.pulseId # 0 /\ e.boardId # 0
  THEN [ok |-> TRUE, from |-> "topLevel",
        parentId |-> e.pulseId, parentBoardId |-> e.boardId]
  ELSE [ok |-> FALSE, from |-> "none", parentId |-> 0, parentBoardId |-> 0]

\* Mutant of ParentBoardValid: the validation is missing.
ParentBoardValid_Any(parentBoardId) == TRUE

\* if (parentBoardId !== config.boards.feature) return failure
ParentBoardValid(parentBoardId) == parentBoardId = boards_feature

\* The end of one iteration of the for loop, with the iteration's effect on
\* the locals (loc) and on what was sent (h) given: start the next item's
\* read, or leave the loop and return the summary.
NextItem(p, loc, h) ==
  LET clean == [loc EXCEPT !.existingLinkedIds = <<>>, !.mergedLinkedIds = <<>>]
  IN IF loc.idx < Len(loc.linkedMainItemIds)
     THEN /\ local' = [local EXCEPT ![p] = [clean EXCEPT !.idx = loc.idx + 1]]
          /\ query' = [query EXCEPT ![p] = FirstAttempt("getMainItemLinkedIds")]
          /\ hist' = [hist EXCEPT ![p] =
                        [h EXCEPT !.requests = @ + 1, !.reads = @ + 1,
                                  !.sent = 1, !.failed = 0, !.applied = FALSE,
                                  !.inFlight = @ + 1,
                                  !.readItems =
                                     Append(@, loc.linkedMainItemIds[loc.idx + 1])]]
          /\ pc' = [pc EXCEPT ![p] = "fetching"]
          /\ out' = out
     ELSE /\ local' = [local EXCEPT ![p] = clean]
          /\ query' = [query EXCEPT ![p] = NoQuery]
          /\ hist' = [hist EXCEPT ![p] = h]
          /\ pc' = [pc EXCEPT ![p] = "idle"]
          /\ out' = [out EXCEPT ![p] =
                       SummaryOut(loc.updatedCount, loc.skippedCount)]

\* The handler returns `answer` before any request was sent.
ReturnEarly(p, payload, answer) ==
  /\ pc[p] = "idle"
  /\ delivered[p] < MaxDeliveries
  /\ VerifySignature(signingSecret, payload) = "true"
  /\ delivered' = [delivered EXCEPT ![p] = @ + 1]
  /\ event' = [event EXCEPT ![p] = payload]
  /\ local' = [local EXCEPT ![p] =
                 [NoLocal EXCEPT !.subitemId =
                    IF IsEvent(payload)
                    THEN SubitemIdOf(handlerSrc, payload) ELSE 0]]
  /\ query' = [query EXCEPT ![p] = NoQuery]
  /\ hist' = [hist EXCEPT ![p] =
                [NoHist EXCEPT !.requestId = RequestId(p, delivered[p] + 1),
                               !.invoked = TRUE,
                               !.signed = WellSigned(signingSecret, payload)]]
  /\ out' = [out EXCEPT ![p] = answer]
  /\ UNCHANGED <<handlerSrc, dryRun, remote, pc>>
  /\ UNCHANGED opsVars

\* if (!verifySignature(req)) { res.status(401).json(..); return; }
Unauthorized(p, payload) ==
  /\ pc[p] = "idle"
  /\ delivered[p] < MaxDeliveries
  /\ VerifySignature(signingSecret, payload) = "false"
  /\ delivered' = [delivered EXCEPT ![p] = @ + 1]
  /\ event' = [event EXCEPT ![p] = payload]
  /\ local' = [local EXCEPT ![p] = NoLocal]
  /\ query' = [query EXCEPT ![p] = NoQuery]
  /\ hist' = [hist EXCEPT ![p] =
                [NoHist EXCEPT !.requestId = RequestId(p, delivered[p] + 1),
                               !.signed = WellSigned(signingSecret, payload)]]
  /\ out' = [out EXCEPT ![p] = UnauthorizedOut]
  /\ UNCHANGED <<handlerSrc, dryRun, remote, pc>>
  /\ UNCHANGED opsVars

\* verifySignature(req) throws before the route's try is entered.
SignatureThrows(p, payload, outcome) ==
  /\ pc[p] = "idle"
  /\ delivered[p] < MaxDeliveries
  /\ VerifySignature(signingSecret, payload) = "throws"
  /\ outcome \in ThrowOutcomes
  /\ delivered' = [delivered EXCEPT ![p] = @ + 1]
  /\ event' = [event EXCEPT ![p] = payload]
  /\ local' = [local EXCEPT ![p] = NoLocal]
  /\ query' = [query EXCEPT ![p] = NoQuery]
  /\ hist' = [hist EXCEPT ![p] =
                [NoHist EXCEPT !.requestId = RequestId(p, delivered[p] + 1),
                               !.signed = WellSigned(signingSecret, payload)]]
  /\ out' = [out EXCEPT ![p] = outcome]
  /\ UNCHANGED <<handlerSrc, dryRun, remote, pc>>
  /\ UNCHANGED opsVars

\* --------------------------------------------------------------- actions

\* The body has no event: reading event.subitemId (event.pulseId in the
\* legacy copy) throws a TypeError, which the route's catch answers.
EventMissing(p, payload) ==
  /\ ~payload.isChallenge
  /\ ~payload.hasEvent
  /\ ReturnEarly(p, payload, ErrorOut(RequestId(p, delivered[p] + 1)))

\* Mutant of EchoChallenge: the board check comes first.
EchoChallenge_AfterBoardCheck(p, payload) ==
  /\ payload.isChallenge
  /\ ReturnEarly(p, payload,
                 IF BoardAccepted(handlerSrc, payload)
                 THEN ChallengeOut(payload.challenge)
                 ELSE ResultOut(FALSE, "Event from unexpected board"))

\* if ('challenge' in payload) return { challenge: payload.challenge }
EchoChallenge(p, payload) ==
  /\ payload.isChallenge
  /\ ReturnEarly(p, payload, ChallengeOut(payload.challenge))

\* Mutant of RejectBoard: the rejection is reported as a success.
RejectBoard_AsSuccess(p, payload) ==
  /\ IsEvent(payload)
  /\ ~BoardAccepted(handlerSrc, payload)
  /\ ReturnEarly(p, payload, ResultOut(TRUE, "Event from unexpected board"))

\* The board check fails.
RejectBoard(p, payload) ==
  /\ IsEvent(payload)
  /\ ~BoardAccepted(handlerSrc, payload)
  /\ ReturnEarly(p, payload, ResultOut(FALSE, "Event from unexpected board"))

\* The column check fails.
RejectColumn(p, payload) ==
  /\ IsEvent(payload)
  /\ BoardAccepted(handlerSrc, payload)
  /\ ~ColumnAccepted(payload)
  /\ ReturnEarly(p, payload, ResultOut(FALSE, "Event for non-target column"))

\* Mutant of NothingToDo: the empty list is reported as a failure.
NothingToDo_AsFailure(p, payload) ==
  /\ IsEvent(payload)
  /\ BoardAccepted(handlerSrc, payload)
  /\ ColumnAccepted(payload)
  /\ Len(LinkedMainItemIdsOf(payload)) = 0
  /\ ReturnEarly(p, payload, ResultOut(FALSE, "No linked items to process"))

\* linkedMainItemIds.length === 0
NothingToDo(p, payload) ==
  /\ IsEvent(payload)
  /\ BoardAccepted(handlerSrc, payload)
  /\ ColumnAccepted(payload)
  /\ Len(LinkedMainItemIdsOf(payload)) = 0
  /\ ReturnEarly(p, payload, ResultOut(TRUE, "No linked items to process"))

\* The event is in scope: await getSubitemWithParent(subitemId).
StartLookup(p, payload) ==
  /\ pc[p] = "idle"
  /\ delivered[p] < MaxDeliveries
  /\ VerifySignature(signingSecret, payload) = "true"
  /\ IsEvent(payload)
  /\ BoardAccepted(handlerSrc, payload)
  /\ ColumnAccepted(payload)
  /\ Len(LinkedMainItemIdsOf(payload)) # 0
  /\ delivered' = [delivered EXCEPT ![p] = @ + 1]
  /\ event' = [event EXCEPT ![p] = payload]
  /\ local' = [local EXCEPT ![p] =
                 [NoLocal EXCEPT
                    !.subitemId = SubitemIdOf(handlerSrc, payload),
                    !.linkedMainItemIds = LinkedMainItemIdsOf(payload)]]
  /\ query' = [query EXCEPT ![p] = FirstAttempt("getSubitemWithParent")]
  /\ hist' = [hist EXCEPT ![p] =
                [NoHist EXCEPT !.requests = 1, !.sent = 1, !.inFlight = 1,
                               !.requestId = RequestId(p, delivered[p] + 1),
                               !.invoked = TRUE,
                               !.signed = WellSigned(signingSecret, payload)]]
  /\ out' = [out EXCEPT ![p] = NoOut]
  /\ pc' = [pc EXCEPT ![p] = "fetching"]
  /\ UNCHANGED <<handlerSrc, dryRun, remote>>
  /\ UNCHANGED opsVars

\* Mutant of AttemptFails: the test before the delay is attempt <= maxAttempts,
\* so the last attempt is followed by one more.
AttemptFails_OnceMore(p, resp, applied, jitter) ==
  /\ pc[p] = "fetching"
  /\ Classify(resp) # "ok"
  /\ query[p].attempt <= retry_maxAttempts
  /\ applied => query[p].call = "updateMainItemLinks"
  /\ remote' = AfterFailedAttempt(p, applied)
  /\ query' = [query EXCEPT ![p].lastError = Classify(resp),
                            ![p].delay = BackoffDelay(query[p].attempt, jitter)]
  /\ hist' = [hist EXCEPT ![p].failed = @ + 1, ![p].response = resp,
                          ![p].applied = @ \/ applied, ![p].inFlight = @ - 1]
  /\ pc' = [pc EXCEPT ![p] = "sleeping"]
  /\ UNCHANGED <<handlerSrc, dryRun, event, local, out, delivered>>
  /\ UNCHANGED opsVars

\* mondayQuery: an attempt that is not the last fails; the catch records the
\* error and awaits the backoff delay.
AttemptFails(p, resp, applied, jitter) ==
  /\ pc[p] = "fetching"
  /\ Classify(resp) # "ok"
  /\ query[p].attempt < retry_maxAttempts
  /\ applied => query[p].call = "updateMainItemLinks"
  /\ remote' = AfterFailedAttempt(p, applied)
  /\ query' = [query EXCEPT ![p].lastError = Classify(resp),
                            ![p].delay = BackoffDelay(query[p].attempt, jitter)]
  /\ hist' = [hist EXCEPT ![p].failed = @ + 1, ![p].response = resp,
                          ![p].applied = @ \/ applied, ![p].inFlight = @ - 1]
  /\ pc' = [pc EXCEPT ![p] = "sleeping"]
  /\ UNCHANGED <<handlerSrc, dryRun, event, local, out, delivered>>
  /\ UNCHANGED opsVars

\* mondayQuery: the delay is over, the next attempt is sent.
Retry(p) ==
  /\ pc[p] = "sleeping"
  /\ query' = [query EXCEPT ![p].attempt = @ + 1, ![p].delay = 0]
  /\ hist' = [hist EXCEPT ![p].requests = @ + 1, ![p].sent = @ + 1,
                          ![p].inFlight = @ + 1]
  /\ pc' = [pc EXCEPT ![p] = "fetching"]
  /\ UNCHANGED <<handlerSrc, dryRun, remote, event, local, out, delivered>>
  /\ UNCHANGED opsVars

\* Mutant of LookupThrows: the error thrown is the one recorded before the
\* last attempt.
LookupThrows_EarlierError(p, resp) ==
  /\ pc[p] = "fetching"
  /\ Classify(resp) # "ok"
  /\ query[p].call = "getSubitemWithParent"
  /\ query[p].attempt = retry_maxAttempts
  /\ query' = query
  /\ hist' = [hist EXCEPT ![p].failed = @ + 1, ![p].response = resp,
                          ![p].inFlight = @ - 1]
  /\ out' = [out EXCEPT ![p] = ErrorOut(hist[p].requestId)]
  /\ pc' = [pc EXCEPT ![p] = "idle"]
  /\ UNCHANGED <<handlerSrc, dryRun, remote, event, local, delivered>>
  /\ UNCHANGED opsVars

\* The last attempt of the subitem lookup fails: mondayQuery throws, nothing
\* in handleWebhookEvent catches it, the route answers 500.
LookupThrows(p, resp) ==
  /\ pc[p] = "fetching"
  /\ Classify(resp) # "ok"
  /\ query[p].call = "getSubitemWithParent"
  /\ query[p].attempt = retry_maxAttempts
  /\ query' = [query EXCEPT ![p].lastError = Classify(resp)]
  /\ hist' = [hist EXCEPT ![p].failed = @ + 1, ![p].response = resp,
                          ![p].inFlight = @ - 1]
  /\ out' = [out EXCEPT ![p] = ErrorOut(hist[p].requestId)]
  /\ pc' = [pc EXCEPT ![p] = "idle"]
  /\ UNCHANGED <<handlerSrc, dryRun, remote, event, local, delivered>>
  /\ UNCHANGED opsVars

\* Mutant of ItemFails: the try/catch is around the loop, not inside it, so
\* the first terminal failure ends the loop and the summary is returned.
ItemFails_Abort(p, resp, applied) ==
  /\ pc[p] = "fetching"
  /\ Classify(resp) # "ok"
  /\ query[p].call \in {"getMainItemLinkedIds", "updateMainItemLinks"}
  /\ query[p].attempt = retry_maxAttempts
  /\ applied => query[p].call = "updateMainItemLinks"
  /\ remote' = AfterFailedAttempt(p, applied)
  /\ hist' = [hist EXCEPT ![p].results = Append(@, "failed"),
                          ![p].failed = @ + 1, ![p].response = resp,
                          ![p].applied = @ \/ applied, ![p].inFlight = @ - 1]
  /\ query' = [query EXCEPT ![p] = NoQuery]
  /\ pc' = [pc EXCEPT ![p] = "idle"]
  /\ out' = [out EXCEPT ![p] =
               SummaryOut(local[p].updatedCount, local[p].skippedCount)]
  /\ UNCHANGED <<handlerSrc, dryRun, event, local, delivered>>
  /\ UNCHANGED opsVars

\* The last attempt of a main item's read or write fails: the loop's catch
\* logs it and the loop goes on.
ItemFails(p, resp, applied) ==
  /\ pc[p] = "fetching"
  /\ Classify(resp) # "ok"
  /\ query[p].call \in {"getMainItemLinkedIds", "updateMainItemLinks"}
  /\ query[p].attempt = retry_maxAttempts
  /\ applied => query[p].call = "updateMainItemLinks"
  /\ remote' = AfterFailedAttempt(p, applied)
  /\ NextItem(p, local[p],
              [hist[p] EXCEPT !.results = Append(@, "failed"),
                              !.failed = @ + 1, !.response = resp,
                              !.applied = @ \/ applied, !.inFlight = @ - 1])
  /\ UNCHANGED <<handlerSrc, dryRun, event, delivered>>
  /\ UNCHANGED opsVars

\* Mutant of LookupAnswers: a lookup without item is a failure only when the
\* event names no parent either.
LookupAnswers_FallbackFirst(p, resp, ans) ==
  /\ pc[p] = "fetching"
  /\ Classify(resp) = "ok"
  /\ query[p].call = "getSubitemWithParent"
  /\ LET e == event[p]
         r == ResolveParent(handlerSrc, e, ans)
         loc == [local[p] EXCEPT !.subitem = ans, !.parentId = r.parentId,
                                 !.parentBoardId = r.parentBoardId]
         fail(message) ==
           /\ out' = [out EXCEPT ![p] = ResultOut(FALSE, message)]
           /\ pc' = [pc EXCEPT ![p] = "idle"]
           /\ query' = [query EXCEPT ![p] = NoQuery]
           /\ local' = [local EXCEPT ![p] = loc]
           /\ hist' = [hist EXCEPT ![p].response = resp, ![p].inFlight = @ - 1]
           /\ event' = event
     IN IF ~ans.found /\ ~r.ok THEN fail("Failed to fetch subitem")
        ELSE IF ~r.ok THEN fail("Subitem has no parent item")
        ELSE IF ~ParentBoardValid(r.parentBoardId)
        THEN fail("Parent item not from expected Feature board")
        ELSE /\ event' = [event EXCEPT ![p] = NoPayload]
             /\ NextItem(p, loc,
                  [hist[p] EXCEPT !.response = resp, !.inFlight = @ - 1,
                                  !.startConsistent =
                     \A m \in Range(loc.linkedMainItemIds) :
                        r.parentId \in LinkedSet(remote[m])])
  /\ UNCHANGED <<handlerSrc, dryRun, remote, delivered>>
  /\ UNCHANGED opsVars

\* The subitem lookup answers: resolve the parent, validate its board, and
\* start the loop.
LookupAnswers(p, resp, ans) ==
  /\ pc[p] = "fetching"
  /\ Classify(resp) = "ok"
  /\ query[p].call = "getSubitemWithParent"
  /\ LET e == event[p]
         r == ResolveParent(handlerSrc, e, ans)
         loc == [local[p] EXCEPT !.subitem = ans, !.parentId = r.parentId,
                                 !.parentBoardId = r.parentBoardId]
         fail(message) ==
           /\ out' = [out EXCEPT ![p] = ResultOut(FALSE, message)]
           /\ pc' = [pc EXCEPT ![p] = "idle"]
           /\ query' = [query EXCEPT ![p] = NoQuery]
           /\ local' = [local EXCEPT ![p] = loc]
           /\ hist' = [hist EXCEPT ![p].response = resp, ![p].inFlight = @ - 1]
           /\ event' = event
     IN IF ~ans.found THEN fail("Failed to fetch subitem")
        ELSE IF ~r.ok THEN fail("Subitem has no parent item")
        ELSE IF ~ParentBoardValid(r.parentBoardId)
        THEN fail("Parent item not from expected Feature board")
        ELSE /\ event' = [event EXCEPT ![p] = NoPayload]
             /\ NextItem(p, loc,
                  [hist[p] EXCEPT !.response = resp, !.inFlight = @ - 1,
                                  !.startConsistent =
                     \A m \in Range(loc.linkedMainItemIds) :
                        r.parentId \in LinkedSet(remote[m])])
  /\ UNCHANGED <<handlerSrc, dryRun, remote, delivered>>
  /\ UNCHANGED opsVars

\* Mutant of ReadAnswers: config.dryRun is not looked at.
ReadAnswers_DryRunIgnored(p, resp) ==
  /\ pc[p] = "fetching"
  /\ Classify(resp) = "ok"
  /\ query[p].call = "getMainItemLinkedIds"
  /\ LET loc == local[p]
         h == [hist[p] EXCEPT !.response = resp, !.inFlight = @ - 1]
         existing == DecodeLinkedIds(remote[CurrentItem(loc)])
         merged == MergeLinkedIds(existing, loc.parentId)
     IN IF Includes(existing, loc.parentId)
        THEN NextItem(p, [loc EXCEPT !.skippedCount = @ + 1],
                      [h EXCEPT !.results = Append(@, "skipped")])
        ELSE /\ local' = [local EXCEPT ![p].existingLinkedIds = existing,
                                       ![p].mergedLinkedIds = merged]
             /\ query' = [query EXCEPT ![p] = FirstAttempt("updateMainItemLinks")]
             /\ hist' = [hist EXCEPT ![p] =
                           [h EXCEPT
                              !.requests = @ + 1, !.sent = 1, !.failed = 0,
                              !.applied = FALSE, !.inFlight = @ + 1,
                              !.writes = Append(@,
                                 WriteRequest(CurrentItem(loc), boards_main, merged))]]
             /\ UNCHANGED <<pc, out>>
  /\ UNCHANGED <<handlerSrc, dryRun, remote, event, delivered>>
  /\ UNCHANGED opsVars

\* Mutant of ReadAnswers: the list fetched for a main item is kept and used
\* again when the item comes up again in the same event (what the cache
\* holds is the list without the parent the first write added).
ReadAnswers_Cached(p, resp) ==
  /\ pc[p] = "fetching"
  /\ Classify(resp) = "ok"
  /\ query[p].call = "getMainItemLinkedIds"
  /\ LET loc == local[p]
         h == [hist[p] EXCEPT !.response = resp, !.inFlight = @ - 1]
         fresh == DecodeLinkedIds(remote[CurrentItem(loc)])
         seen == \E i \in 1..(loc.idx - 1) :
                   /\ loc.linkedMainItemIds[i] = CurrentItem(loc)
                   /\ hist[p].results[i] = "updated"
         existing == IF seen
                     THEN SelectSeq(fresh, LAMBDA x : x # loc.parentId)
                     ELSE fresh
         merged == MergeLinkedIds(existing, loc.parentId)
     IN IF Includes(existing, loc.parentId)
        THEN NextItem(p, [loc EXCEPT !.skippedCount = @ + 1],
                      [h EXCEPT !.results = Append(@, "skipped")])
        ELSE IF dryRun
        THEN NextItem(p, [loc EXCEPT !.updatedCount = @ + 1],
                      [h EXCEPT !.results = Append(@, "updated")])
        ELSE /\ local' = [local EXCEPT ![p].existingLinkedIds = existing,
                                       ![p].mergedLinkedIds = merged]
             /\ query' = [query EXCEPT ![p] = FirstAttempt("updateMainItemLinks")]
             /\ hist' = [hist EXCEPT ![p] =
                           [h EXCEPT
                              !.requests = @ + 1, !.sent = 1, !.failed = 0,
                              !.applied = FALSE, !.inFlight = @ + 1,
                              !.writes = Append(@,
                                 WriteRequest(CurrentItem(loc), boards_main, merged))]]
             /\ UNCHANGED <<pc, out>>
  /\ UNCHANGED <<handlerSrc, dryRun, remote, event, delivered>>
  /\ UNCHANGED opsVars

\* Mutant of ReadAnswers: updatedCount is incremented when the write is
\* sent, before its answer.
ReadAnswers_CountBeforeWrite(p, resp) ==
  /\ pc[p] = "fetching"
  /\ Classify(resp) = "ok"
  /\ query[p].call = "getMainItemLinkedIds"
  /\ LET loc == local[p]
         h == [hist[p] EXCEPT !.response = resp, !.inFlight = @ - 1]
         existing == DecodeLinkedIds(remote[CurrentItem(loc)])
         merged == MergeLinkedIds(existing, loc.parentId)
     IN IF Includes(existing, loc.parentId)
        THEN NextItem(p, [loc EXCEPT !.skippedCount = @ + 1],
                      [h EXCEPT !.results = Append(@, "skipped")])
        ELSE IF dryRun
        THEN NextItem(p, [loc EXCEPT !.updatedCount = @ + 1],
                      [h EXCEPT !.results = Append(@, "updated")])
        ELSE /\ local' = [local EXCEPT ![p].existingLinkedIds = existing,
                                       ![p].mergedLinkedIds = merged,
                                       ![p].updatedCount = @ + 1]
             /\ query' = [query EXCEPT ![p] = FirstAttempt("updateMainItemLinks")]
             /\ hist' = [hist EXCEPT ![p] =
                           [h EXCEPT
                              !.requests = @ + 1, !.sent = 1, !.failed = 0,
                              !.applied = FALSE, !.inFlight = @ + 1,
                              !.writes = Append(@,
                                 WriteRequest(CurrentItem(loc), boards_main, merged))]]
             /\ UNCHANGED <<pc, out>>
  /\ UNCHANGED <<handlerSrc, dryRun, remote, event, delivered>>
  /\ UNCHANGED opsVars

\* Mutant of ReadAnswers: the write is sent and not awaited; the loop goes on
\* with the entry counted as updated.
ReadAnswers_WriteNotAwaited(p, resp) ==
  /\ pc[p] = "fetching"
  /\ Classify(resp) = "ok"
  /\ query[p].call = "getMainItemLinkedIds"
  /\ LET loc == local[p]
         h == [hist[p] EXCEPT !.response = resp, !.inFlight = @ - 1]
         existing == DecodeLinkedIds(remote[CurrentItem(loc)])
         merged == MergeLinkedIds(existing, loc.parentId)
     IN IF Includes(existing, loc.parentId)
        THEN NextItem(p, [loc EXCEPT !.skippedCount = @ + 1],
                      [h EXCEPT !.results = Append(@, "skipped")])
        ELSE IF dryRun
        THEN NextItem(p, [loc EXCEPT !.updatedCount = @ + 1],
                      [h EXCEPT !.results = Append(@, "updated")])
        ELSE NextItem(p, [loc EXCEPT !.updatedCount = @ + 1],
                      [h EXCEPT
                         !.requests = @ + 1, !.inFlight = @ + 1,
                         !.results = Append(@, "updated"),
                         !.writes = Append(@,
                            WriteRequest(CurrentItem(loc), boards_main, merged))])
  /\ UNCHANGED <<handlerSrc, dryRun, remote, event, delivered>>
  /\ UNCHANGED opsVars

\* Mutant of ReadAnswers: a value that cannot be decoded is an error of the
\* read, which the loop's catch counts as a failed entry.
ReadAnswers_FailClosed(p, resp) ==
  /\ pc[p] = "fetching"
  /\ Classify(resp) = "ok"
  /\ query[p].call = "getMainItemLinkedIds"
  /\ LET loc == local[p]
         h == [hist[p] EXCEPT !.response = resp, !.inFlight = @ - 1]
         raw == remote[CurrentItem(loc)]
         existing == DecodeLinkedIds(raw)
         merged == MergeLinkedIds(existing, loc.parentId)
     IN IF raw.kind \in UndecodableKinds
        THEN NextItem(p, loc, [h EXCEPT !.results = Append(@, "failed")])
        ELSE IF Includes(existing, loc.parentId)
        THEN NextItem(p, [loc EXCEPT !.skippedCount = @ + 1],
                      [h EXCEPT !.results = Append(@, "skipped")])
        ELSE IF dryRun
        THEN NextItem(p, [loc EXCEPT !.updatedCount = @ + 1],
                      [h EXCEPT !.results = Append(@, "updated")])
        ELSE /\ local' = [local EXCEPT ![p].existingLinkedIds = existing,
                                       ![p].mergedLinkedIds = merged]
             /\ query' = [query EXCEPT ![p] = FirstAttempt("updateMainItemLinks")]
             /\ hist' = [hist EXCEPT ![p] =
                           [h EXCEPT
                              !.requests = @ + 1, !.sent = 1, !.failed = 0,
                              !.applied = FALSE, !.inFlight = @ + 1,
                              !.writes = Append(@,
                                 WriteRequest(CurrentItem(loc), boards_main, merged))]]
             /\ UNCHANGED <<pc, out>>
  /\ UNCHANGED <<handlerSrc, dryRun, remote, event, delivered>>
  /\ UNCHANGED opsVars

\* getMainItemLinkedIds answers: skip, record the dry-run update, or send
\* the write.
ReadAnswers(p, resp) ==
  /\ pc[p] = "fetching"
  /\ Classify(resp) = "ok"
  /\ query[p].call = "getMainItemLinkedIds"
  /\ LET loc == local[p]
         h == [hist[p] EXCEPT !.response = resp, !.inFlight = @ - 1]
         existing == DecodeLinkedIds(remote[CurrentItem(loc)])
         merged == MergeLinkedIds(existing, loc.parentId)
     IN IF Includes(existing, loc.parentId)
        THEN NextItem(p, [loc EXCEPT !.skippedCount = @ + 1],
                      [h EXCEPT !.results = Append(@, "skipped")])
        ELSE IF dryRun
        THEN NextItem(p, [loc EXCEPT !.updatedCount = @ + 1],
                      [h EXCEPT !.results = Append(@, "updated")])
        ELSE /\ local' = [local EXCEPT ![p].existingLinkedIds = existing,
                                       ![p].mergedLinkedIds = merged]
             /\ query' = [query EXCEPT ![p] = FirstAttempt("updateMainItemLinks")]
             /\ hist' = [hist EXCEPT ![p] =
                           [h EXCEPT
                              !.requests = @ + 1, !.sent = 1, !.failed = 0,
                              !.applied = FALSE, !.inFlight = @ + 1,
                              !.writes = Append(@,
                                 WriteRequest(CurrentItem(loc), boards_main, merged))]]
             /\ UNCHANGED <<pc, out>>
  /\ UNCHANGED <<handlerSrc, dryRun, remote, event, delivered>>
  /\ UNCHANGED opsVars

\* Mutant of WriteAnswers: the backoff delay of any request keeps the
\* answers of the others from being handled (a sleep that blocks the loop).
WriteAnswers_WhileNoneSleeps(p, resp) ==
  /\ \A q \in Procs : pc[q] # "sleeping"
  /\ pc[p] = "fetching"
  /\ Classify(resp) = "ok"
  /\ query[p].call = "updateMainItemLinks"
  /\ remote' = ApplyWrite(remote, CurrentItem(local[p]), local[p].mergedLinkedIds)
  /\ NextItem(p, [local[p] EXCEPT !.updatedCount = @ + 1],
              [hist[p] EXCEPT !.results = Append(@, "updated"),
                              !.response = resp, !.inFlight = @ - 1])
  /\ UNCHANGED <<handlerSrc, dryRun, event, delivered>>
  /\ UNCHANGED opsVars

\* updateMainItemLinks answers: the column now holds the merged list.
WriteAnswers(p, resp) ==
  /\ pc[p] = "fetching"
  /\ Classify(resp) = "ok"
  /\ query[p].call = "updateMainItemLinks"
  /\ remote' = ApplyWrite(remote, CurrentItem(local[p]), local[p].mergedLinkedIds)
  /\ NextItem(p, [local[p] EXCEPT !.updatedCount = @ + 1],
              [hist[p] EXCEPT !.results = Append(@, "updated"),
                              !.response = resp, !.inFlight = @ - 1])
  /\ UNCHANGED <<handlerSrc, dryRun, event, delivered>>
  /\ UNCHANGED opsVars

\* ------------------------------------------------------- server and scripts

\* index.ts: app.listen(config.port, ..)
Listen ==
  /\ listening = 0
  /\ listening' = ConfigPort(envPort)
  /\ UNCHANGED <<envPort, registerSrc, webhooks, created, console, signingSecret>>
  /\ UNCHANGED handlerVars

\* The board and the event of the create_webhook mutation: the subitem
\* board and change_column_value in part_001, the feature board and
\* change_subitem_column_value in part_002.
RegisterBoard(src) ==
  IF src = "part_001" THEN boards_subitem ELSE boards_feature
RegisterEvent(src) ==
  IF src = "part_001" THEN "change_column_value"
  ELSE "change_subitem_column_value"

\* unregister-webhook.ts: SUBITEM_BOARD_ID, the board listWebhooks queries.
ListBoard == boards_subitem

\* registerWebhook(): the mutation creates the subscription and the script
\* prints its id, or the API answers with errors and the script exits.
RegisterWebhook(ok) ==
  /\ created < MaxWebhooks
  /\ IF ok
     THEN /\ webhooks' = webhooks \cup
                 {Webhook(created + 1, RegisterBoard(registerSrc),
                          RegisterEvent(registerSrc))}
          /\ created' = created + 1
          /\ console' = Printed("register", TRUE, {created + 1})
     ELSE /\ console' = Printed("register", FALSE, {})
          /\ UNCHANGED <<webhooks, created>>
  /\ UNCHANGED <<envPort, listening, registerSrc, signingSecret>>
  /\ UNCHANGED handlerVars

\* main() with WEBHOOK_ID not set: listWebhooks() prints the subscriptions
\* of boards(ids: [SUBITEM_BOARD_ID]).
ListWebhooks(ok) ==
  /\ console' =
       Printed("list", ok,
               IF ok THEN {w.id : w \in {x \in webhooks : x.board_id = ListBoard}}
               ELSE {})
  /\ UNCHANGED <<envPort, listening, registerSrc, webhooks, created, signingSecret>>
  /\ UNCHANGED handlerVars

\* main() with WEBHOOK_ID set: deleteWebhook(WEBHOOK_ID).
DeleteWebhook(webhookId, ok) ==
  /\ \E w \in webhooks : w.id = webhookId
  /\ IF ok
     THEN /\ webhooks' = {w \in webhooks : w.id # webhookId}
          /\ console' = Printed("delete", TRUE, {webhookId})
     ELSE /\ console' = Printed("delete", FALSE, {})
          /\ UNCHANGED webhooks
  /\ UNCHANGED <<envPort, listening, registerSrc, created, signingSecret>>
  /\ UNCHANGED handlerVars

\* ------------------------------------------------------------ specification

\* Deliveries are handled one at a time, by process 1.
Next ==
  \E p \in {1} :
    \/ \E payload \in Payloads :
         \/ EchoChallenge(p, payload)
         \/ EventMissing(p, payload)
         \/ RejectBoard(p, payload)
         \/ RejectColumn(p, payload)
         \/ NothingToDo(p, payload)
         \/ StartLookup(p, payload)
    \/ \E resp \in SeqResponses :
         \/ \E applied \in BOOLEAN :
              \/ \E jitter \in SeqJitters : AttemptFails(p, resp, applied, jitter)
              \/ ItemFails(p, resp, applied)
         \/ LookupThrows(p, resp)
         \/ \E ans \in SubitemAnswers : LookupAnswers(p, resp, ans)
         \/ ReadAnswers(p, resp)
         \/ WriteAnswers(p, resp)
    \/ Retry(p)

Spec == Init /\ [][Next]_vars

\* The calls of mondayQuery under every response and both ends of the
\* jitter, for events in scope.
RetryNext ==
  \E p \in {1} :
    \/ \E payload \in RetryPayloads : StartLookup(p, payload)
    \/ \E resp \in Responses :
         \/ \E applied \in BOOLEAN :
              \/ \E jitter \in Jitters : AttemptFails(p, resp, applied, jitter)
              \/ ItemFails(p, resp, applied)
         \/ LookupThrows(p, resp)
         \/ \E ans \in SubitemAnswers : LookupAnswers(p, resp, ans)
         \/ ReadAnswers(p, resp)
         \/ WriteAnswers(p, resp)
    \/ Retry(p)

RetrySpec == Init /\ [][RetryNext]_vars

\* The reads of main items whose column holds every kind of value a
\* successful response can carry.
DecodeRemotes ==
  { [m \in MainItems |-> IF m = M1 THEN raw ELSE Raw("null")] :
      raw \in {Raw(k) : k \in UndecodableKinds} \cup {Linked(<<P2>>)} }

DecodeInit ==
  /\ OpsIdle
  /\ handlerSrc \in HandlerSrcs
  /\ dryRun \in BOOLEAN
  /\ remote \in DecodeRemotes
  /\ HandlerIdle

DecodeNext ==
  \E p \in {1} :
    \/ \E payload \in RetryPayloads : StartLookup(p, payload)
    \/ \E resp \in SeqResponses :
         \/ \E applied \in BOOLEAN :
              \/ \E jitter \in SeqJitters : AttemptFails(p, resp, applied, jitter)
              \/ ItemFails(p, resp, applied)
         \/ LookupThrows(p, resp)
         \/ \E ans \in SubitemAnswers : LookupAnswers(p, resp, ans)
         \/ ReadAnswers(p, resp)
         \/ WriteAnswers(p, resp)
    \/ Retry(p)

DecodeSpec == DecodeInit /\ [][DecodeNext]_vars

\* Two events under way at once: the subitems S1 (of P1) and S2 (of P2) were
\* both linked to the main item M1.  The first deliveries overlap in any
\* way; an event is delivered again only while no event is under way.
RaceParents == [s \in {S1, S2} |-> IF s = S1 THEN P1 ELSE P2]

RacePayload(p) ==
  Event(boards_subitem, IF p = 1 THEN S1 ELSE S2, 0, 0, 0,
        columns_subitemToMain, "linkedPulseIds", <<M1>>)

\* The parent the subitem lookup answers with is the subitem's.
RaceAnswer(subitemId) ==
  [found |-> TRUE, hasParent |-> TRUE,
   parent_item |-> [id |-> ToDigits(RaceParents[subitemId]),
                    board |-> ToDigits(boards_feature)]]

RaceResponses == {GoodResponse, FetchThrows}

RaceInit ==
  /\ OpsIdle
  /\ handlerSrc \in HandlerSrcs
  /\ dryRun = FALSE
  /\ remote = [m \in MainItems |-> Linked(<<>>)]
  /\ HandlerIdle

\* POST /webhook while other requests are between their awaits.
Deliver(p) ==
  /\ \/ delivered[p] = 0
     \/ \A q \in Procs : pc[q] = "idle" /\ delivered[q] >= 1
  /\ StartLookup(p, RacePayload(p))

RaceNext ==
  \E p \in Procs :
    \/ Deliver(p)
    \/ \E resp \in RaceResponses :
         \/ \E applied \in BOOLEAN :
              \/ \E jitter \in SeqJitters : AttemptFails(p, resp, applied, jitter)
              \/ ItemFails(p, resp, applied)
         \/ LookupThrows(p, resp)
         \/ LookupAnswers(p, resp, RaceAnswer(local[p].subitemId))
         \/ ReadAnswers(p, resp)
         \/ WriteAnswers(p, resp)
    \/ Retry(p)

RaceSpec == RaceInit /\ [][RaceNext]_vars

\* The request p awaits settles (fetch resolves or rejects), or the timer of
\* its backoff delay fires.
Settle(p) ==
  \/ \E resp \in SeqResponses :
       \/ \E applied \in BOOLEAN :
            \/ \E jitter \in SeqJitters : AttemptFails(p, resp, applied, jitter)
            \/ ItemFails(p, resp, applied)
       \/ LookupThrows(p, resp)
       \/ \E ans \in SubitemAnswers : LookupAnswers(p, resp, ans)
       \/ ReadAnswers(p, resp)
       \/ WriteAnswers(p, resp)
  \/ Retry(p)

\* The requests of DecodeSpec when every fetch settles and every timer fires.
TermSpec == DecodeInit /\ [][DecodeNext]_vars /\ WF_vars(Settle(1))

\* The server starts under every PORT and the scripts are run, in any
\* order, against an account that may hold subscriptions already.
OpsInit ==
  /\ envPort \in EnvPorts
  /\ listening = 0
  /\ registerSrc \in RegisterSrcs
  /\ webhooks \in InitialWebhooks
  /\ created = 0
  /\ console = NoConsole
  /\ signingSecret = 0
  /\ handlerSrc = "current"
  /\ dryRun = FALSE
  /\ remote = [m \in MainItems |-> Linked(<<>>)]
  /\ HandlerIdle

OpsNext ==
  \/ Listen
  \/ \E ok \in BOOLEAN :
       \/ RegisterWebhook(ok)
       \/ ListWebhooks(ok)
       \/ \E webhookId \in 1..9 : DeleteWebhook(webhookId, ok)

OpsSpec == OpsInit /\ [][OpsNext]_vars

\* ------------------------------------------------------- shared predicates

\* The handler has returned (or thrown) and the route has answered.
Returned(p) == pc[p] = "idle" /\ out[p].kind # "none"

\* The handler has returned the summary of the loop.
ReturnedSummary(p) == Returned(p) /\ out[p].message = "Updated"

\* The event of the request is still held: the request ended before the
\* loop, or the subitem lookup is under way.
EventHeld(p) == IsEvent(event[p])

\* The board and column ids the configuration names.
ConfiguredBoard(e) == e.boardId \in {boards_subitem, boards_feature}
ConfiguredColumn(e) == e.columnId = columns_subitemToMain

\* The step is the successful answer of the read p awaits.
ReadAnswered(p) ==
  /\ pc[p] = "fetching"
  /\ query[p].call = "getMainItemLinkedIds"
  /\ \/ query'[p].call = "updateMainItemLinks"
     \/ /\ Len(hist'[p].results) = Len(hist[p].results) + 1
        /\ Last(hist'[p].results) # "failed"

\* --------------------------------------------------------------------- C1
\* C1: when an in-scope event has been handled with dry mode off, no other
\* event under way and no read or write failing terminally, then on return
\* every main item id of the event's list has the resolved parentId in its
\* remote main -> feature relation set.
C1_Postcondition ==
  \A p \in Procs :
    (ReturnedSummary(p) /\ ~dryRun /\ "failed" \notin Range(hist[p].results))
      => \A i \in 1..Len(local[p].linkedMainItemIds) :
           local[p].parentId \in LinkedSet(remote[local[p].linkedMainItemIds[i]])

\* Two items written (after at least one retried attempt is possible), none failed.
C1_Witness ==
  /\ ReturnedSummary(1) /\ ~dryRun
  /\ hist[1].results = <<"updated", "updated">>
  /\ hist[1].requests > 5

\* --------------------------------------------------------------------- C2
\* C2: a main item whose fetched relation set already contains parentId gets
\* no write and is counted as skipped (the step that receives the read's
\* answer sends nothing but the next read, changes no remote value and adds
\* one to skippedCount); and an event handled against a remote state in
\* which every listed item already holds the parent sends no write at all,
\* at any delivery.
C2_SkipStep ==
  \A p \in Procs :
    (ReadAnswered(p)
       /\ local[p].parentId \in LinkedSet(remote[CurrentItem(local[p])]))
      => /\ hist'[p].writes = hist[p].writes
         /\ Last(hist'[p].results) = "skipped"
         /\ local'[p].skippedCount = local[p].skippedCount + 1
         /\ local'[p].updatedCount = local[p].updatedCount
         /\ remote' = remote

C2_NoWriteWhenConsistent ==
  \A p \in Procs :
    hist[p].startConsistent
      => /\ hist[p].writes = <<>>
         /\ "updated" \notin Range(hist[p].results)
         /\ \A m \in Range(local[p].linkedMainItemIds) :
              local[p].parentId \in LinkedSet(remote[m])

C2_Idempotence == [][C2_SkipStep]_vars /\ []C2_NoWriteWhenConsistent

\* A second delivery that found every item consistent and skipped both.
C2_Witness ==
  /\ delivered[1] = 2
  /\ ReturnedSummary(1)
  /\ hist[1].startConsistent
  /\ hist[1].results = <<"skipped", "skipped">>
  /\ hist[1].writes = <<>>

\* --------------------------------------------------------------------- C3
\* C3: for every fetched list E (any order, duplicates allowed) that does
\* not contain parentId, the id list of the write payload is, as a set,
\* set(E) with parentId added, and holds no id twice.
C3_MergeCorrect ==
  \A p \in Procs :
    query[p].call = "updateMainItemLinks"
      => LET E == local[p].existingLinkedIds
             W == Last(hist[p].writes).item_ids
         IN /\ ~Includes(E, local[p].parentId)
            /\ W = local[p].mergedLinkedIds
            /\ Range(W) = Range(E) \cup {local[p].parentId}
            /\ NoDuplicates(W)

\* A write under way whose fetched list held an id twice.
C3_Witness ==
  /\ query[1].call = "updateMainItemLinks"
  /\ ~NoDuplicates(local[1].existingLinkedIds)
  /\ Len(local[1].mergedLinkedIds) = 2

\* --------------------------------------------------------------------- C4
\* C4: a terminal failure of one entry's read or write never stops the loop
\* (at the return every entry of the list has a result), and with two
\* entries of which one failed and the other was updated, in either order,
\* the outcome is success with updatedCount 1 and skippedCount 0, and with
\* dry mode off the updated item's write was sent and its relation set
\* holds the parent.
C4_PartialFailure ==
  \A p \in Procs :
    (Returned(p) /\ local[p].idx > 0)
      => LET ids == local[p].linkedMainItemIds
             res == hist[p].results
         IN /\ Len(res) = Len(ids)
            /\ (res = <<"failed", "updated">> \/ res = <<"updated", "failed">>)
                 => /\ out[p].success
                    /\ out[p].status = 200
                    /\ out[p].updatedCount = 1
                    /\ out[p].skippedCount = 0
                    /\ ~dryRun =>
                         LET i == IF res[1] = "updated" THEN 1 ELSE 2
                         IN /\ \E j \in 1..Len(hist[p].writes) :
                                 /\ hist[p].writes[j].itemId = ids[i]
                                 /\ local[p].parentId
                                      \in Range(hist[p].writes[j].item_ids)
                            /\ local[p].parentId \in LinkedSet(remote[ids[i]])

\* The first entry failed terminally and the second was written.
C4_Witness ==
  /\ ReturnedSummary(1) /\ ~dryRun
  /\ hist[1].results = <<"failed", "updated">>
  /\ local[1].linkedMainItemIds = <<M1, M2>>

\* --------------------------------------------------------------------- C5
\* C5: once the parent-board validation has passed (the loop was entered),
\* the handler returns success = true with the summary message whatever
\* entries fail; when every entry fails the summary is
\* 'Updated 0 main items, skipped 0'.
C5_SuccessAfterValidation ==
  \A p \in Procs :
    (Returned(p) /\ local[p].idx > 0)
      => /\ out[p].success
         /\ out[p].status = 200
         /\ out[p].message = "Updated"
         /\ (\A i \in 1..Len(hist[p].results) : hist[p].results[i] = "failed")
              => out[p].updatedCount = 0 /\ out[p].skippedCount = 0

\* Both entries of a two-entry list failed terminally.
C5_Witness ==
  /\ Returned(1)
  /\ hist[1].results = <<"failed", "failed">>
  /\ out[1] = SummaryOut(0, 0)

\* --------------------------------------------------------------------- C6
\* C6: an event whose board id or column id does not match the
\* configuration is answered without any remote request (no subitem lookup,
\* no read, no write), and a request is only ever sent for an event that
\* passed the board, the column and the empty-list check.
C6_CheapRejection ==
  \A p \in Procs :
    /\ (EventHeld(p) /\ (~ConfiguredBoard(event[p]) \/ ~ConfiguredColumn(event[p])))
         => /\ Returned(p)
            /\ hist[p].requests = 0 /\ hist[p].reads = 0 /\ hist[p].writes = <<>>
    /\ (EventHeld(p) /\ hist[p].requests > 0)
         => /\ ConfiguredBoard(event[p])
            /\ ConfiguredColumn(event[p])
            /\ event[p].valueKind = "linkedPulseIds"
            /\ Len(event[p].linkedPulseIds) > 0

\* An event for another column was answered.
C6_Witness ==
  /\ Returned(1) /\ EventHeld(1)
  /\ ConfiguredBoard(event[1]) /\ ~ConfiguredColumn(event[1])
  /\ hist[1].requests = 0

C8_BoardAcceptance ==
  \A p \in Procs :
    EventHeld(p)
      => (out[p].message = "Event from unexpected board"
            <=> ~ConfiguredBoard(event[p]))

\* --------------------------------------------------------------------- C9
\* C9: an event that passed the board check gets past the column check if
\* and only if its columnId is the configured subitem -> main column;
\* otherwise it is answered 'Event for non-target column'.
C9_ColumnAcceptance ==
  \A p \in Procs :
    (EventHeld(p) /\ out[p].message # "Event from unexpected board")
      => /\ out[p].message = "Event for non-target column"
              <=> event[p].columnId # columns_subitemToMain
         /\ event[p].columnId # columns_subitemToMain
              => Returned(p) /\ ~out[p].success /\ hist[p].requests = 0

\* An event on an accepted board and the target column is past the check:
\* its subitem lookup is under way.
C9_Witness ==
  /\ EventHeld(1) /\ pc[1] = "fetching"
  /\ query[1].call = "getSubitemWithParent"
  /\ event[1].columnId = columns_subitemToMain

\* -------------------------------------------------------------------- C10
\* C10: an event whose list of linked main items is empty or absent (value
\* or value.linkedPulseIds missing) causes no remote read or write, and
\* when it passed the board and the column check it is answered with the
\* successful 'No linked items to process'.
C10_EmptyList ==
  \A p \in Procs :
    (EventHeld(p)
       /\ (event[p].valueKind # "linkedPulseIds" \/ event[p].linkedPulseIds = <<>>))
      => /\ Returned(p)
         /\ hist[p].requests = 0 /\ hist[p].reads = 0 /\ hist[p].writes = <<>>
         /\ out[p].message
              \notin {"Event from unexpected board", "Event for non-target column"}
              => out[p] = ResultOut(TRUE, "No linked items to process")

\* An event without value.linkedPulseIds was answered 'No linked items'.
C10_Witness ==
  /\ Returned(1) /\ EventHeld(1)
  /\ event[1].valueKind = "noLinkedPulseIds"
  /\ out[1] = ResultOut(TRUE, "No linked items to process")

\* -------------------------------------------------------------------- C11
\* C11: when no parent can be resolved, or the resolved parentBoardId is
\* not the configured feature board, the event is answered with
\* success = false and the reason as message, and no main item was read or
\* written (the only requests sent are those of the subitem lookup); the
\* parent's board is settled in the one step that receives the lookup's
\* answer, before any main item is read, and every read is made under a
\* parent on the feature board.
C11_FailureBeforeLoop ==
  \A p \in Procs :
    /\ (local[p].subitem.found
          /\ (local[p].parentId = 0 \/ local[p].parentBoardId # boards_feature))
         => /\ Returned(p)
            /\ out[p] = ResultOut(FALSE,
                           IF local[p].parentId = 0
                           THEN "Subitem has no parent item"
                           ELSE "Parent item not from expected Feature board")
            /\ local[p].idx = 0
            /\ hist[p].reads = 0 /\ hist[p].writes = <<>>
            /\ hist[p].requests = hist[p].sent
    /\ hist[p].reads > 0
         => local[p].parentId # 0 /\ local[p].parentBoardId = boards_feature

C11_ValidatedOnce ==
  \A p \in Procs :
    local'[p].parentBoardId # local[p].parentBoardId
      => \/ pc[p] = "idle"
         \/ query[p].call = "getSubitemWithParent" /\ hist[p].reads = 0

C11_PreconditionFailure ==
  []C11_FailureBeforeLoop /\ [][C11_ValidatedOnce]_vars

\* The lookup answered a parent on the main board: the event failed after
\* a retried lookup, with nothing read.
C11_Witness ==
  /\ Returned(1)
  /\ out[1].message = "Parent item not from expected Feature board"
  /\ local[1].parentBoardId = boards_main
  /\ hist[1].requests = 2 /\ hist[1].reads = 0

\* -------------------------------------------------------------------- C12
\* C12: in the step that receives the lookup's answer, the parent of the
\* lookup is the resolved parent whenever the lookup has one, whatever the
\* event's nested parent fields say; a parent other than the lookup's is
\* resolved only when the lookup has none, and it is then the nested
\* parentItemId/parentItemBoardId if both are there, and the top-level
\* pulseId/boardId only if they are not.
C12_Step ==
  \A p \in Procs :
    (pc[p] = "fetching" /\ query[p].call = "getSubitemWithParent"
       /\ local'[p].subitem.found)
      => LET e == event[p]
             s == local'[p].subitem
             got == <<local'[p].parentId, local'[p].parentBoardId>>
             nested == <<e.parentItemId, e.parentItemBoardId>>
             top == <<e.pulseId, e.boardId>>
         IN /\ s.hasParent
                 => got = <<ParseInt(s.parent_item.id),
                            ParseInt(s.parent_item.board)>>
            /\ (~s.hasParent /\ got # <<0, 0>>)
                 => IF nested[1] # 0 /\ nested[2] # 0
                    THEN got = nested
                    ELSE got = top /\ top[1] # 0 /\ top[2] # 0

C12_ResolutionPriority == [][C12_Step]_vars

\* The event names a parent on the feature board, the lookup one on the
\* main board: the lookup's parent was taken and the event failed.
C12_Witness ==
  /\ handlerSrc = "current"
  /\ Returned(1) /\ EventHeld(1)
  /\ local[1].subitem.hasParent
  /\ event[1].parentItemId = P2 /\ event[1].parentItemBoardId = boards_feature
  /\ local[1].parentId = P1 /\ local[1].parentBoardId = boards_main
  /\ out[1].message = "Parent item not from expected Feature board"

\* -------------------------------------------------------------------- C13
\* C13: the item id the subitem lookup is made with is the event's
\* subitemId when the event has one, and the event's pulseId otherwise.
C13_SubitemIdDerivation ==
  \A p \in Procs :
    (EventHeld(p) /\ hist[p].requests > 0)
      => local[p].subitemId = OrElse(event[p].subitemId, event[p].pulseId)

\* ------------------------------------------- the attempts of mondayQuery

\* A response mondayQuery returns the data of: HTTP-OK, no error listed,
\* data there.
Acceptable(resp) ==
  ~resp.threw /\ resp.ok /\ resp.errors # "some" /\ resp.hasData

\* The error mondayQuery makes of a response that is not acceptable.
ErrorOf(resp) ==
  IF resp.threw THEN "transport"
  ELSE IF ~resp.ok THEN "http"
  ELSE IF resp.errors = "some" THEN "graphqlErrors"
  ELSE "noData"

\* The step is p's: the request p awaits has come back.
CameBack(p) ==
  /\ pc[p] = "fetching"
  /\ <<pc'[p], query'[p], hist'[p], out'[p]>> # <<pc[p], query[p], hist[p], out[p]>>

\* In the step, the call of mondayQuery p is in throws: the route answers
\* 500, or the loop's catch marks the entry as failed.
Throws(p) ==
  \/ out'[p] = ErrorOut(hist'[p].requestId) /\ pc'[p] = "idle"
  \/ /\ Len(hist'[p].results) = Len(hist[p].results) + 1
     /\ Last(hist'[p].results) = "failed"

\* In the step, the call of mondayQuery p is in returns to its caller.
Returns(p) == pc'[p] # "sleeping" /\ ~Throws(p)

\* -------------------------------------------------------------------- C14
\* C14: when an attempt of a call comes back acceptable after k failed
\* attempts, k + 1 <= maxAttempts requests were sent for the call, the call
\* returns in that step with that response's data (the list read is the
\* remote list of that moment), and the call sends nothing more: the only
\* request the step sends is the first one of the next call.
C14_Step ==
  \A p \in Procs :
    (CameBack(p) /\ Acceptable(hist'[p].response))
      => /\ hist[p].sent = hist[p].failed + 1
         /\ hist[p].sent = query[p].attempt
         /\ hist[p].sent <= retry_maxAttempts
         /\ Returns(p)
         /\ IF pc'[p] = "fetching"
            THEN /\ hist'[p].requests = hist[p].requests + 1
                 /\ hist'[p].sent = 1 /\ hist'[p].failed = 0
                 /\ query'[p].attempt = 1
                 /\ query'[p].call # "getSubitemWithParent"
            ELSE /\ hist'[p].requests = hist[p].requests
                 /\ hist'[p].sent = hist[p].sent
                 /\ query'[p].call = "none"
         /\ query'[p].call = "updateMainItemLinks"
              => local'[p].existingLinkedIds
                   = DecodeLinkedIds(remote[CurrentItem(local[p])])

C14_RetrySuccess == [][C14_Step]_vars

\* Fail, fail, succeed: the last call of the event was answered at its
\* third request.
C14_Witness ==
  /\ ReturnedSummary(1)
  /\ hist[1].sent = 3 /\ hist[1].failed = 2
  /\ Acceptable(hist[1].response)
  /\ Last(hist[1].results) = "updated"

\* -------------------------------------------------------------------- C15
\* C15: a failed attempt is followed by a retry as long as fewer than
\* maxAttempts requests were sent, and the call throws exactly when the
\* request that failed was number maxAttempts (3); the error the lookup
\* throws to the route is that of this last response.
C15_Step ==
  \A p \in Procs :
    (CameBack(p) /\ ~Acceptable(hist'[p].response))
      => /\ hist[p].sent = hist[p].failed + 1
         /\ hist[p].sent = query[p].attempt
         /\ hist[p].sent < retry_maxAttempts
              => pc'[p] = "sleeping" /\ ~Throws(p)
         /\ hist[p].sent >= retry_maxAttempts
              => /\ hist[p].sent = retry_maxAttempts
                 /\ Throws(p)
                 /\ pc'[p] # "sleeping"
                 /\ query[p].call = "getSubitemWithParent"
                      => query'[p].lastError = ErrorOf(hist'[p].response)

C15_Sent ==
  \A p \in Procs :
    /\ hist[p].sent <= retry_maxAttempts
    /\ out[p] = ErrorOut(hist[p].requestId)
         => /\ hist[p].sent = retry_maxAttempts
            /\ hist[p].failed = retry_maxAttempts
            /\ hist[p].requests = retry_maxAttempts
            /\ query[p].lastError = ErrorOf(hist[p].response)

C15_RetryExhaustion == [][C15_Step]_vars /\ []C15_Sent

\* The lookup failed three times, the last time with a body without data.
C15_Witness ==
  /\ out[1] = ErrorOut(hist[1].requestId)
  /\ hist[1].sent = 3 /\ hist[1].failed = 3
  /\ hist[1].response = Response(FALSE, TRUE, "empty", FALSE)
  /\ query[1].lastError = "noData"

\* -------------------------------------------------------------------- C16
\* C16: while a call waits to retry after failed attempt n, n is below
\* maxAttempts and the delay is min(baseDelayMs * 2^(n-1) + jitter,
\* maxDelayMs) for a jitter in [0, 500); every further request of a call is
\* sent out of such a wait, and the last failed attempt is followed by no
\* wait.  For every attempt number the delay is at most maxDelayMs,
\* exceeds the delay without jitter by less than 500, and without jitter
\* does not decrease with the attempt number.
C16_Delay ==
  /\ \A p \in Procs :
       IF pc[p] = "sleeping"
       THEN /\ query[p].attempt < retry_maxAttempts
            /\ LET b == retry_baseDelayMs * Pow2(query[p].attempt - 1)
               IN query[p].delay
                    \in Min(b, retry_maxDelayMs)..Min(b + 499, retry_maxDelayMs)
            /\ query[p].delay <= retry_maxDelayMs
       ELSE query[p].delay = 0
  /\ \A n \in 1..MaxBackoffAttempt, jitter \in Jitters :
       /\ BackoffDelay(n, jitter) <= retry_maxDelayMs
       /\ BackoffDelay(n, jitter) - BackoffDelay(n, 0) \in 0..499
       /\ BackoffDelay(n, 0) <= BackoffDelay(n + 1, 0)
       /\ BackoffDelay(n, 0) = Min(retry_baseDelayMs * Pow2(n - 1), retry_maxDelayMs)

C16_Step ==
  \A p \in Procs :
    /\ (hist'[p].sent = hist[p].sent + 1 /\ hist[p].sent > 0)
         => pc[p] = "sleeping" /\ hist[p].failed = hist[p].sent
    /\ (CameBack(p) /\ hist[p].sent = retry_maxAttempts)
         => pc'[p] # "sleeping" /\ query'[p].delay = 0

C16_Backoff == []C16_Delay /\ [][C16_Step]_vars

\* The wait after the second failed attempt, with the largest jitter.
C16_Witness ==
  /\ pc[1] = "sleeping"
  /\ query[1].attempt = 2
  /\ query[1].delay = 2499

\* -------------------------------------------------------------------- C17
\* C17: a request that comes back makes the call return if and only if the
\* response is HTTP-OK, lists no error and has data; fetch throwing, a
\* non-OK status, a non-empty errors list and a body without data each
\* count as a failed attempt, recorded as lastError, and lead to the same
\* wait and retry (or, at the last attempt, to the throw) whatever the kind.
C17_Step ==
  \A p \in Procs :
    CameBack(p)
      => LET resp == hist'[p].response
         IN /\ resp \in Responses
            /\ Returns(p) <=> Acceptable(resp)
            /\ ~Acceptable(resp)
                 => /\ hist'[p].failed = hist[p].failed + 1 \/ pc'[p] = "fetching"
                    /\ pc'[p] = "sleeping" <=> hist[p].sent < retry_maxAttempts
                    /\ pc'[p] = "sleeping"
                         => /\ query'[p].lastError = ErrorOf(resp)
                            /\ query'[p].lastError \in FailureKinds
                            /\ query'[p].attempt = query[p].attempt
                            /\ query'[p].call = query[p].call
                            /\ local'[p] = local[p]

C17_FailureKinds == [][C17_Step]_vars

\* A status 200 whose body has an empty errors list and no data: the call
\* waits to retry.
C17_Witness ==
  /\ pc[1] = "sleeping"
  /\ hist[1].response = Response(FALSE, TRUE, "empty", FALSE)
  /\ query[1].lastError = "noData"
  /\ query[1].call = "updateMainItemLinks"

\* -------------------------------------------------------------------- C18
\* C18: with config.dryRun set no write request is ever sent and no remote
\* value changes, at any event; every entry the loop has started has had
\* its read; the answer of a read leads to a skip exactly when the set read
\* holds the parent (with or without dry mode), and in dry mode to an
\* entry counted as updated otherwise.
C18_NoWrite ==
  dryRun =>
    \A p \in Procs :
      /\ hist[p].writes = <<>>
      /\ query[p].call # "updateMainItemLinks"
      /\ hist[p].reads = local[p].idx
      /\ ReturnedSummary(p)
           => out[p].updatedCount
                = Cardinality({i \in 1..Len(hist[p].results) :
                                 hist[p].results[i] = "updated"})

C18_ReadStep ==
  /\ dryRun => remote' = remote
  /\ \A p \in Procs :
       ReadAnswered(p)
         => LET held == local[p].parentId
                          \in LinkedSet(remote[CurrentItem(local[p])])
                skipped == /\ Len(hist'[p].results) = Len(hist[p].results) + 1
                           /\ Last(hist'[p].results) = "skipped"
                           /\ local'[p].skippedCount = local[p].skippedCount + 1
                           /\ local'[p].updatedCount = local[p].updatedCount
            IN /\ skipped <=> held
               /\ (dryRun /\ ~held)
                    => /\ Len(hist'[p].results) = Len(hist[p].results) + 1
                       /\ Last(hist'[p].results) = "updated"
                       /\ local'[p].updatedCount = local[p].updatedCount + 1
                       /\ local'[p].skippedCount = local[p].skippedCount

C18_DryMode == []C18_NoWrite /\ [][C18_ReadStep]_vars

\* Dry mode: of two entries one would have been written, one was skipped.
C18_Witness ==
  /\ dryRun
  /\ ReturnedSummary(1)
  /\ hist[1].results = <<"updated", "skipped">>
  /\ hist[1].reads = 2 /\ hist[1].writes = <<>>
  /\ out[1].updatedCount = 1 /\ out[1].skippedCount = 1

\* -------------------------------------------------------------------- C19
\* C19: a payload with a challenge is answered with exactly its token,
\* whatever event fields it carries (from an accepted board or not): no
\* board or column rejection, no subitem id derived, no request sent; and
\* only a challenge payload is answered with a challenge.
C19_ChallengeEcho ==
  \A p \in Procs :
    /\ (event[p].isChallenge /\ event[p] # NoPayload)
         => /\ Returned(p)
            /\ out[p] = ChallengeOut(event[p].challenge)
            /\ local[p] = NoLocal
            /\ query[p] = NoQuery
            /\ hist[p].requests = 0 /\ hist[p].reads = 0 /\ hist[p].writes = <<>>
    /\ out[p].kind = "challenge"
         => event[p].isChallenge /\ event[p] # NoPayload

\* A challenge that carries an event of a board the configuration does not
\* name was answered with its token.
C19_Witness ==
  /\ Returned(1)
  /\ event[1] = ChallengeWithEvent("tok3", boards_main)
  /\ out[1] = ChallengeOut("tok3")
  /\ hist[1].requests = 0

\* -------------------------------------------------------------------- C20
\* C20: when every attempt of the subitem lookup has failed, the handler
\* returns an outcome of its own (HTTP 200, success = false, a message
\* naming the failure) instead of letting the error reach the route's
\* catch, and no write is sent.
C20_LookupFailureCaught ==
  \A p \in Procs :
    (Returned(p) /\ query[p].call = "getSubitemWithParent"
       /\ hist[p].failed = retry_maxAttempts)
      => /\ out[p].kind = "result"
         /\ out[p].status = 200
         /\ ~out[p].success
         /\ out[p].message # "Internal server error"
         /\ hist[p].writes = <<>>

\* -------------------------------------------------------------------- C21
\* C21: a successful response of getMainItemLinkedIds whose value cannot be
\* decoded (no item, no column, null, not JSON, no linkedPulseIds, not an
\* array) is never an error of the read: it is read as no links, so with dry
\* mode off the step sends the write of exactly <<parentId>>, and with dry
\* mode on it counts the entry as updated; the successful answer of a write
\* made from an empty read counts the entry as updated and leaves exactly
\* {parentId} in the column.
C21_ReadStep ==
  \A p \in Procs :
    ( /\ CameBack(p)
      /\ query[p].call = "getMainItemLinkedIds"
      /\ Acceptable(hist'[p].response)
      /\ remote[CurrentItem(local[p])].kind \in UndecodableKinds )
      => /\ ~Throws(p)
         /\ IF dryRun
            THEN /\ hist'[p].results = Append(hist[p].results, "updated")
                 /\ local'[p].updatedCount = local[p].updatedCount + 1
                 /\ hist'[p].writes = hist[p].writes
            ELSE /\ query'[p].call = "updateMainItemLinks"
                 /\ pc'[p] = "fetching"
                 /\ hist'[p].writes =
                      Append(hist[p].writes,
                             WriteRequest(CurrentItem(local[p]), boards_main,
                                          <<local[p].parentId>>))

C21_WriteStep ==
  \A p \in Procs :
    ( /\ CameBack(p)
      /\ query[p].call = "updateMainItemLinks"
      /\ Acceptable(hist'[p].response)
      /\ local[p].existingLinkedIds = <<>> )
      => /\ hist'[p].results = Append(hist[p].results, "updated")
         /\ local'[p].updatedCount = local[p].updatedCount + 1
         /\ local'[p].skippedCount = local[p].skippedCount
         /\ LinkedSet(remote'[CurrentItem(local[p])]) = {local[p].parentId}

C21_FailOpen == [][C21_ReadStep]_vars /\ [][C21_WriteStep]_vars

\* The first entry's column was not JSON; its write of <<P1>> was answered
\* and counted, and the write for the second entry, whose column is null,
\* is under way.
C21_Witness ==
  /\ hist[1].results = <<"updated">>
  /\ local[1].updatedCount = 1
  /\ Len(hist[1].writes) = 2
  /\ hist[1].writes[1] = WriteRequest(M1, boards_main, <<P1>>)
  /\ remote[M1] = Linked(<<P1>>)
  /\ query[1].call = "updateMainItemLinks"
  /\ remote[M2] = Raw("null")
  /\ Last(hist[1].writes) = WriteRequest(M2, boards_main, <<P1>>)

\* -------------------------------------------------------------------- C22
\* C22: two events with the parents P1 and P2 and the same main item are
\* under way at once.  Nothing keeps the one from reading while the other is
\* between its read and its write; a write that is applied leaves exactly
\* the list its sender computed; so when both reads came before both writes
\* (each event wrote the list of its own parent alone), the column ends
\* with the list of the write applied last, without the other parent.
C22_NoExclusion ==
  \A p, q \in Procs :
    ( /\ p # q
      /\ query[p].call = "updateMainItemLinks"
      /\ pc[q] = "fetching"
      /\ query[q].call = "getMainItemLinkedIds" )
      => ENABLED ReadAnswers(q, GoodResponse)

C22_WriteStep ==
  \A m \in MainItems :
    remote'[m] # remote[m]
      => \E p \in Procs :
           /\ CameBack(p)
           /\ query[p].call = "updateMainItemLinks"
           /\ CurrentItem(local[p]) = m
           /\ remote'[m] = Linked(local[p].mergedLinkedIds)

\* Both first deliveries have returned, each after one write of its own
\* parent alone.
C22_BothReadFirst ==
  /\ \A p \in Procs :
       /\ delivered[p] = 1
       /\ ReturnedSummary(p)
       /\ hist[p].results = <<"updated">>
  /\ hist[1].writes = <<WriteRequest(M1, boards_main, <<P1>>)>>
  /\ hist[2].writes = <<WriteRequest(M1, boards_main, <<P2>>)>>

C22_LastWriterWins ==
  C22_BothReadFirst => remote[M1] \in {Linked(<<P1>>), Linked(<<P2>>)}

C22_LostUpdate ==
  []C22_NoExclusion /\ [][C22_WriteStep]_vars /\ []C22_LastWriterWins

\* Both events read the empty list, the second event's write was applied
\* last: P1 is lost.
C22_Witness ==
  /\ C22_BothReadFirst
  /\ remote[M1] = Linked(<<P2>>)
  /\ out[1].updatedCount = 1 /\ out[2].updatedCount = 1

\* -------------------------------------------------------------------- C23
\* C23: the first deliveries of the two events overlapped in any way.  Once
\* every event has been delivered again, one delivery at a time, and its
\* latest delivery returned without a failed entry, the column of the main
\* item holds both parents; and a delivery that is not the first and finds
\* its parent in the column sends no write and leaves the column as it is.
C23_Redelivered(p) ==
  /\ delivered[p] >= 2
  /\ ReturnedSummary(p)
  /\ hist[p].results = <<"updated">> \/ hist[p].results = <<"skipped">>

C23_Converged ==
  (\A p \in Procs : C23_Redelivered(p))
    => {P1, P2} \subseteq LinkedSet(remote[M1])

C23_Settled ==
  \A p \in Procs :
    (delivered[p] >= 2 /\ hist[p].startConsistent)
      => /\ hist[p].writes = <<>>
         /\ query[p].call # "updateMainItemLinks"
         /\ local[p].parentId \in LinkedSet(remote[M1])

C23_QuietStep ==
  \A p \in Procs :
    (delivered[p] >= 2 /\ hist[p].startConsistent /\ pc[p] # "idle")
      => remote' = remote

C23_Convergence ==
  []C23_Converged /\ []C23_Settled /\ [][C23_QuietStep]_vars

\* The first deliveries lost P1; the second delivery of the first event read
\* <<P2>> and wrote <<P2, P1>>, the second delivery of the second event
\* found both and sent no write.
C23_Witness ==
  /\ \A p \in Procs : C23_Redelivered(p) /\ delivered[p] = 2
  /\ hist[1].writes = <<WriteRequest(M1, boards_main, <<P2, P1>>)>>
  /\ hist[2].startConsistent
  /\ hist[2].results = <<"skipped">> /\ hist[2].writes = <<>>
  /\ remote[M1] = Linked(<<P2, P1>>)

\* -------------------------------------------------------------------- C24
\* C24: while one event waits in a backoff delay, every step another event
\* is at can be taken: its first delivery can start, the answer of the
\* request it awaits (lookup, read or write) can be handled, its own delay
\* can end; such a step leaves the waiting event in its delay with its
\* frame untouched, and the waiting event's delay can end whatever the
\* others do.
C24_OthersCanStep ==
  \A p, q \in Procs :
    (p # q /\ pc[p] = "sleeping")
      => /\ ENABLED Retry(p)
         /\ (pc[q] = "idle" /\ delivered[q] = 0) => ENABLED Deliver(q)
         /\ pc[q] = "sleeping" => ENABLED Retry(q)
         /\ (pc[q] = "fetching" /\ query[q].call = "getSubitemWithParent")
              => ENABLED LookupAnswers(q, GoodResponse,
                                       RaceAnswer(local[q].subitemId))
         /\ (pc[q] = "fetching" /\ query[q].call = "getMainItemLinkedIds")
              => ENABLED ReadAnswers(q, GoodResponse)
         /\ (pc[q] = "fetching" /\ query[q].call = "updateMainItemLinks")
              => ENABLED WriteAnswers(q, GoodResponse)

C24_OtherStep ==
  \A p, q \in Procs :
    (p # q /\ pc[p] = "sleeping" /\ <<pc'[q], hist'[q]>> # <<pc[q], hist[q]>>)
      => /\ pc'[p] = "sleeping"
         /\ query'[p] = query[p]
         /\ local'[p] = local[p]
         /\ hist'[p] = hist[p]

C24_BackoffLocal == []C24_OthersCanStep /\ [][C24_OtherStep]_vars

\* The first request of the first event failed and the event is in its
\* delay; the second event has read, written and returned.
C24_Witness ==
  /\ pc[1] = "sleeping"
  /\ delivered[1] = 1 /\ hist[1].requests = 1
  /\ delivered[2] = 1
  /\ ReturnedSummary(2)
  /\ hist[2].results = <<"updated">>
  /\ hist[2].requests = 3
  /\ remote[M1] = Linked(<<P2>>)

\* -------------------------------------------------------------------- C25
\* C25: every write carries the whole list (the ids read and the parent),
\* and applying it sets the column to exactly that list; so once an attempt
\* of a write was applied though reported as failed, the column holds the
\* list of the write, and every later attempt of that write, applied or
\* not, answered or failed, leaves the column as one application left it.
C25_FullSet ==
  \A p \in Procs :
    query[p].call = "updateMainItemLinks"
      => /\ Last(hist[p].writes).item_ids = local[p].mergedLinkedIds
         /\ Range(local[p].mergedLinkedIds)
              = Range(local[p].existingLinkedIds) \cup {local[p].parentId}
         /\ hist[p].applied
              => remote[CurrentItem(local[p])] = Linked(local[p].mergedLinkedIds)

C25_RetryStep ==
  \A p \in Procs :
    (CameBack(p) /\ query[p].call = "updateMainItemLinks")
      => LET m == CurrentItem(local[p])
             once == ApplyWrite(remote, m, local[p].mergedLinkedIds)
         IN /\ remote' \in {remote, once}
            /\ Acceptable(hist'[p].response) => remote' = once
            /\ hist[p].applied => (once = remote /\ remote' = remote)

C25_WriteRetryIdempotent == []C25_FullSet /\ [][C25_RetryStep]_vars

\* The first attempt of the write of <<P2, P1>> was applied and reported as
\* failed; the second attempt was answered.
C25_Witness ==
  /\ ReturnedSummary(1)
  /\ hist[1].applied
  /\ hist[1].sent = 2 /\ hist[1].failed = 1
  /\ hist[1].results = <<"updated">>
  /\ hist[1].writes = <<WriteRequest(M1, boards_main, <<P2, P1>>)>>
  /\ remote[M1] = Linked(<<P2, P1>>)

\* -------------------------------------------------------------------- C26
\* C26: the handler throws in two places: reading the event of a payload
\* that has none, and the subitem lookup whose last attempt failed.  In both
\* the route answers status 500 with success false, 'Internal server error'
\* and the id of that request; a 500 is answered for nothing else; and after
\* a 500 the request sends nothing more and changes nothing: the next step
\* of that process is a new delivery.
C26_Answer(p) ==
  /\ pc[p] = "idle"
  /\ out[p].kind = "result"
  /\ out[p].status = 500
  /\ ~out[p].success
  /\ out[p].message = "Internal server error"
  /\ out[p].requestId = RequestId(p, delivered[p])
  /\ out[p].requestId = hist[p].requestId
  /\ hist[p].reads = 0 /\ hist[p].writes = <<>> /\ hist[p].inFlight = 0

\* The latest request of p ended with an error thrown by the handler.
C26_Escaped(p) ==
  \/ delivered[p] > 0 /\ event[p] = NoEvent
  \/ /\ pc[p] = "idle"
     /\ query[p].call = "getSubitemWithParent"
     /\ hist[p].failed = retry_maxAttempts

C26_Caught ==
  \A p \in Procs :
    /\ C26_Escaped(p) <=> out[p].status = 500
    /\ out[p].status = 500 => C26_Answer(p)

C26_NoRetryStep ==
  \A p \in Procs :
    ( /\ out[p].status = 500
      /\ <<pc'[p], query'[p], hist'[p], out'[p], local'[p]>>
           # <<pc[p], query[p], hist[p], out[p], local[p]>> )
      => /\ delivered'[p] = delivered[p] + 1
         /\ hist'[p].requestId # hist[p].requestId
         /\ remote' = remote

C26_OutermostBoundary == []C26_Caught /\ [][C26_NoRetryStep]_vars

\* The second request of the process carried neither a challenge nor an
\* event; it was answered 500 with its own request id.
C26_Witness ==
  /\ delivered[1] = 2
  /\ event[1] = NoEvent
  /\ out[1].status = 500
  /\ out[1].requestId = RequestId(1, 2)
  /\ hist[1].requests = 0

\* -------------------------------------------------------------------- C27
\* C27: when the list script has run without errors after the register
\* script created a subscription that still exists, the list names that
\* subscription.
C27_RoundTrip ==
  ( /\ console.script = "list"
    /\ console.ok
    /\ \E w \in webhooks : w.id = created )
    => created \in console.ids

\* -------------------------------------------------------------------- C28
\* C28: when PORT is not set, the port the server listens on is 3000.
C28_DefaultPort ==
  (listening # 0 /\ ~envPort.set) => listening = readme_port_default

\* -------------------------------------------------------------------- C29
\* C29: a request has at most one remote request outstanding, and one
\* exactly while it awaits an answer.  No main item is read before the
\* subitem lookup has answered with a parent; the items read are the first
\* idx entries of the event's list, in the list's order; while entry idx is
\* at its read or its write, exactly the idx - 1 entries before it have
\* ended (skipped, updated or failed); a write is sent only for the entry
\* whose read was the latest; and the summary is returned only when every
\* entry has ended and nothing is outstanding.
C29_Sequential ==
  \A p \in Procs :
    LET h == hist[p]
        loc == local[p]
    IN /\ h.inFlight = IF pc[p] = "fetching" THEN 1 ELSE 0
       /\ h.reads > 0
            => /\ query[p].call # "getSubitemWithParent"
               /\ loc.subitem.found
               /\ loc.parentId # 0
       /\ h.reads = loc.idx
       /\ loc.idx <= Len(loc.linkedMainItemIds)
       /\ h.readItems = SubSeq(loc.linkedMainItemIds, 1, loc.idx)
       /\ query[p].call \in {"getMainItemLinkedIds", "updateMainItemLinks"}
            => /\ loc.idx >= 1
               /\ Len(h.results) = loc.idx - 1
       /\ Len(h.writes) <= Len(h.readItems)
       /\ query[p].call = "updateMainItemLinks"
            => Last(h.writes).itemId = Last(h.readItems)
       /\ ReturnedSummary(p)
            => /\ loc.idx = Len(loc.linkedMainItemIds)
               /\ Len(h.results) = Len(loc.linkedMainItemIds)
               /\ h.inFlight = 0

\* A step that sends a request sends one, after the answer it handled.
C29_Step ==
  \A p \in Procs :
    /\ hist'[p].requests > hist[p].requests
         => /\ hist'[p].requests = hist[p].requests + 1
            /\ pc[p] # "fetching" \/ CameBack(p)
            /\ pc'[p] = "fetching"
    /\ hist'[p].reads > hist[p].reads
         => /\ hist'[p].reads = hist[p].reads + 1
            /\ Len(hist'[p].results) = hist[p].reads

C29_StrictSequence == []C29_Sequential /\ [][C29_Step]_vars

\* The read of the second entry is under way after the first entry's read
\* and write: the fourth request of the event.
C29_Witness ==
  /\ pc[1] = "fetching"
  /\ query[1].call = "getMainItemLinkedIds"
  /\ local[1].idx = 2
  /\ hist[1].readItems = <<M1, M2>>
  /\ hist[1].results = <<"updated">>
  /\ Len(hist[1].writes) = 1
  /\ hist[1].requests = 4
  /\ hist[1].inFlight = 1

\* -------------------------------------------------------------------- C30
\* C30: at every point of the loop updatedCount is the number of entries
\* that ended updated and skippedCount the number that ended skipped, so
\* their sum is at most the number of entries that have ended and a failed
\* entry is in neither; the summary returns these counts.  A count grows by
\* one, and only one of the two grows, in the step that ends an entry:
\* updatedCount at the answer of the entry's write (with dry mode on, at the
\* answer of its read when the parent is not linked), skippedCount at the
\* answer of its read when the parent is linked; the step in which an entry
\* fails changes neither.
C30_Count(results, label) ==
  Cardinality({i \in 1..Len(results) : results[i] = label})

C30_Counts ==
  \A p \in Procs :
    LET r == hist[p].results
        u == local[p].updatedCount
        s == local[p].skippedCount
    IN /\ u = C30_Count(r, "updated")
       /\ s = C30_Count(r, "skipped")
       /\ u + s + C30_Count(r, "failed") = Len(r)
       /\ u + s <= Len(r)
       /\ Len(r) <= local[p].idx
       /\ ReturnedSummary(p)
            => out[p].updatedCount = u /\ out[p].skippedCount = s

C30_Step ==
  \A p \in Procs :
    delivered'[p] = delivered[p]
      => LET du == local'[p].updatedCount - local[p].updatedCount
             ds == local'[p].skippedCount - local[p].skippedCount
             linked == local[p].parentId
                         \in LinkedSet(remote[CurrentItem(local[p])])
         IN /\ du \in {0, 1} /\ ds \in {0, 1} /\ du + ds <= 1
            /\ du + ds = 1
                 => /\ CameBack(p)
                    /\ Acceptable(hist'[p].response)
                    /\ Len(hist'[p].results) = Len(hist[p].results) + 1
            /\ du = 1
                 => IF dryRun
                    THEN query[p].call = "getMainItemLinkedIds" /\ ~linked
                    ELSE /\ query[p].call = "updateMainItemLinks"
                         /\ local[p].parentId
                              \in LinkedSet(remote'[CurrentItem(local[p])])
            /\ ds = 1 => query[p].call = "getMainItemLinkedIds" /\ linked
            /\ ( /\ Len(hist'[p].results) = Len(hist[p].results) + 1
                 /\ Last(hist'[p].results) = "failed" )
                 => du = 0 /\ ds = 0

C30_CountAccounting == []C30_Counts /\ [][C30_Step]_vars

\* The read of the first entry failed for good, the second entry was found
\* linked: the summary counts 0 updated and 1 skipped of 2 entries.
C30_Witness ==
  /\ ReturnedSummary(1)
  /\ hist[1].results = <<"failed", "skipped">>
  /\ hist[1].writes = <<>>
  /\ out[1].updatedCount = 0 /\ out[1].skippedCount = 1

\* -------------------------------------------------------------------- C31
\* C31: a call of mondayQuery sends at most maxAttempts requests; the
\* handling of an event with n linked main item ids makes one lookup, at
\* most n reads and at most n writes, so it sends at most
\* maxAttempts * (1 + 2n) requests; and when every request settles, with an
\* answer or a failure, every event under way returns or throws.
C31_Bound ==
  \A p \in Procs :
    LET n == Len(local[p].linkedMainItemIds)
    IN /\ query[p].attempt <= retry_maxAttempts
       /\ hist[p].sent <= retry_maxAttempts
       /\ hist[p].reads <= n
       /\ Len(hist[p].writes) <= n
       /\ hist[p].requests
            <= retry_maxAttempts * (1 + hist[p].reads + Len(hist[p].writes))
       /\ hist[p].requests <= retry_maxAttempts * (1 + 2 * n)

C31_Ends == \A p \in Procs : (pc[p] # "idle") ~> (pc[p] = "idle")

C31_Termination == []C31_Bound /\ C31_Ends

\* One linked id; the lookup, the read and the write were each answered at
\* the third attempt: nine requests, the bound for n = 1.
C31_Witness ==
  /\ ReturnedSummary(1)
  /\ Len(local[1].linkedMainItemIds) = 1
  /\ hist[1].results = <<"updated">>
  /\ hist[1].requests = retry_maxAttempts * 3

\* -------------------------------------------------------------------- C32
\* C32: with one event handled at a time, no step takes an id out of the
\* relation set of a main item whose column holds a well-formed value (and
\* the value stays well-formed), whatever attempts fail or are applied
\* unreported; so after any sequence of events each set includes the set
\* it was before.  The list of every write holds every id the read of that
\* entry returned.
C32_WellFormed(raw) == raw.kind = "linked"

C32_Step ==
  \A m \in MainItems :
    C32_WellFormed(remote[m])
      => /\ C32_WellFormed(remote'[m])
         /\ LinkedSet(remote[m]) \subseteq LinkedSet(remote'[m])

C32_WriteHoldsRead ==
  \A p \in Procs :
    query[p].call = "updateMainItemLinks"
      => /\ Range(local[p].existingLinkedIds)
              \subseteq Range(Last(hist[p].writes).item_ids)
         /\ Last(hist[p].writes).item_ids = local[p].mergedLinkedIds
         /\ pc[p] = "fetching"
              => LinkedSet(remote[CurrentItem(local[p])])
                   \subseteq Range(local[p].mergedLinkedIds)

C32_NoLinkRemoved == [][C32_Step]_vars /\ []C32_WriteHoldsRead

\* The second event of the sequence: the write for the second entry, whose
\* column held P2 twice, carries P2 and the parent.
C32_Witness ==
  /\ delivered[1] = 2
  /\ pc[1] = "fetching"
  /\ query[1].call = "updateMainItemLinks"
  /\ local[1].idx = 2
  /\ local[1].existingLinkedIds = <<P2, P2>>
  /\ Last(hist[1].writes).item_ids = <<P2, P1>>
  /\ hist[1].failed = 1

\* -------------------------------------------------------------------- C33
\* C33: every write of a request names an item of the event's list (the
\* entry the loop is at when it is sent), the main board and the
\* main -> feature column; it names neither the subitem nor the parent (the
\* lists of the events name main items), never the subitem -> main column;
\* and a step changes the column of no item but the one the write under way
\* names.
C33_Writes ==
  \A p \in Procs :
    \A i \in 1..Len(hist[p].writes) :
      LET w == hist[p].writes[i]
      IN /\ w.itemId \in Range(local[p].linkedMainItemIds)
         /\ w.itemId \in Range(hist[p].readItems)
         /\ w.boardId = boards_main
         /\ w.columnId = columns_mainToFeature
         /\ w.columnId # columns_subitemToMain
         /\ w.itemId \notin {local[p].subitemId, local[p].parentId}
         /\ w.boardId \notin {boards_subitem, boards_feature}

C33_Step ==
  \A m \in MainItems :
    remote'[m] # remote[m]
      => \E p \in Procs :
           /\ query[p].call = "updateMainItemLinks"
           /\ Last(hist[p].writes).itemId = m
           /\ m \in Range(local[p].linkedMainItemIds)

C33_Frame == []C33_Writes /\ [][C33_Step]_vars

\* The event listed M1 and M2; both were written, M2 untouched until its
\* own write.
C33_Witness ==
  /\ ReturnedSummary(1)
  /\ local[1].linkedMainItemIds = <<M1, M2>>
  /\ Len(hist[1].writes) = 2
  /\ hist[1].writes[1].itemId = M1 /\ hist[1].writes[2].itemId = M2
  /\ hist[1].writes[2].columnId = columns_mainToFeature
  /\ hist[1].results = <<"updated", "updated">>

\* -------------------------------------------------------------------- C34
\* C34: every entry of the list has its own read, also an id that is in the
\* list again.  When the handling of an event went without a failed request
\* and an id occurs twice, then with dry mode off the later occurrence was
\* skipped (its read returned the list the write of the earlier one left),
\* so the id was written at most once; with dry mode on the later
\* occurrence ended as the earlier one did, both counted as updated when
\* the parent was not linked.
C34_NoFailure(p) ==
  /\ hist[p].requests = 1 + hist[p].reads + Len(hist[p].writes)
  /\ \A i \in 1..Len(hist[p].results) : hist[p].results[i] # "failed"

C34_FreshRead ==
  \A p \in Procs :
    LET ids == local[p].linkedMainItemIds
        r == hist[p].results
    IN /\ ReturnedSummary(p) => hist[p].reads = Len(ids)
       /\ (ReturnedSummary(p) /\ C34_NoFailure(p))
            => \A i, j \in 1..Len(ids) :
                 (i < j /\ ids[i] = ids[j])
                   => IF dryRun
                      THEN /\ r[j] = r[i]
                           /\ hist[p].writes = <<>>
                      ELSE /\ r[j] = "skipped"
                           /\ Cardinality({k \in 1..Len(hist[p].writes) :
                                hist[p].writes[k].itemId = ids[i]}) <= 1

\* M1 is listed twice, dry mode is off: the first occurrence was written,
\* the second was read again and skipped.
C34_Witness ==
  /\ ~dryRun
  /\ ReturnedSummary(1)
  /\ C34_NoFailure(1)
  /\ local[1].linkedMainItemIds = <<M1, M1>>
  /\ hist[1].reads = 2
  /\ hist[1].results = <<"updated", "skipped">>
  /\ Len(hist[1].writes) = 1

\* -------------------------------------------------------------------- C35
\* C35: once the loop over the main items has begun, the parent id the
\* handler resolved is not the id it looked up as the subitem.
C35_ParentNotSubitem ==
  \A p \in Procs :
    local[p].idx >= 1 => local[p].parentId # local[p].subitemId

\* -------------------------------------------------------------------- C36
\* C36: when the subitem lookup is answered without an item, the request
\* ends in that step with success false and 'Failed to fetch subitem', no
\* read and no write sent, whatever parent fields the event carries; and
\* that message is returned for nothing else.
C36_Step ==
  \A p \in Procs :
    ( /\ CameBack(p)
      /\ query[p].call = "getSubitemWithParent"
      /\ Acceptable(hist'[p].response)
      /\ ~local'[p].subitem.found )
      => /\ pc'[p] = "idle"
         /\ out'[p].kind = "result" /\ out'[p].status = 200
         /\ ~out'[p].success
         /\ out'[p].message = "Failed to fetch subitem"
         /\ local'[p].idx = 0
         /\ hist'[p].reads = 0 /\ hist'[p].writes = <<>>
         /\ hist'[p].requests = hist[p].requests
         /\ remote' = remote

C36_NoItem ==
  \A p \in Procs :
    out[p].message = "Failed to fetch subitem"
      => /\ Returned(p)
         /\ ~out[p].success
         /\ ~local[p].subitem.found
         /\ Acceptable(hist[p].response)
         /\ local[p].idx = 0
         /\ hist[p].reads = 0 /\ hist[p].writes = <<>>

C36_LookupWithoutItem == [][C36_Step]_vars /\ []C36_NoItem

\* The event named the parent P2 on the feature board; the lookup answered
\* without an item and the request failed.
C36_Witness ==
  /\ Returned(1)
  /\ out[1].message = "Failed to fetch subitem"
  /\ event[1].parentItemId = P2
  /\ event[1].parentItemBoardId = boards_feature
  /\ handlerSrc = "current"
  /\ hist[1].requests = 1

\* ------------------------------------------- requests through the gate

\* One body for each way the handler can go: a challenge, a body without an
\* event, an event from a board out of scope, one for another column, one
\* with an empty list, and one that starts the lookup.
GateBodies ==
  { Challenge("tok"), NoEvent,
    Event(boards_main, P1, S1, 0, 0, columns_subitemToMain,
          "linkedPulseIds", <<M1>>),
    Event(boards_subitem, P1, S1, 0, 0, columns_mainToFeature,
          "linkedPulseIds", <<M1>>),
    Event(boards_subitem, P1, S1, 0, 0, columns_subitemToMain,
          "linkedPulseIds", <<>>),
    Event(boards_subitem, S1, 0, 0, 0, columns_subitemToMain,
          "linkedPulseIds", <<M1>>) }

\* WEBHOOK_SIGNING_SECRET unset, or set.
GateSecrets == {0, 1}

\* The requests: each body under each header.
GateRequests ==
  { Signed(body, sig) :
      body \in GateBodies,
      sig \in UNION {Signatures(s, b) : s \in GateSecrets, b \in GateBodies} }

\* Every main item's column is empty.
GateRemotes == { [m \in MainItems |-> Raw("null")] }

GateInit ==
  /\ ServerUp
  /\ signingSecret \in GateSecrets
  /\ handlerSrc \in HandlerSrcs
  /\ dryRun \in BOOLEAN
  /\ remote \in GateRemotes
  /\ HandlerIdle

GateNext ==
  \E p \in {1} :
    \/ \E payload \in GateRequests :
         \/ Unauthorized(p, payload)
         \/ \E outcome \in ThrowOutcomes : SignatureThrows(p, payload, outcome)
         \/ EchoChallenge(p, payload)
         \/ EventMissing(p, payload)
         \/ RejectBoard(p, payload)
         \/ RejectColumn(p, payload)
         \/ NothingToDo(p, payload)
         \/ StartLookup(p, payload)
    \/ Settle(p)

GateSpec == GateInit /\ [][GateNext]_vars

\* C37: with a signing secret configured, a request whose x-monday-signature
\* header is missing or differs, in content or in length, from the HMAC of
\* its body is answered 401 and handleWebhookEvent is not invoked for it,
\* challenges included; with no secret configured every request is passed to
\* the handler.
C37_SignatureGate ==
  \A p \in Procs :
    delivered[p] > 0 =>
      /\ (signingSecret # 0 /\ ~hist[p].signed) =>
            (out[p].status = 401 /\ ~hist[p].invoked)
      /\ signingSecret = 0 => hist[p].invoked

\* The parts of C37 that the route keeps: a request that is not signed is
\* never handed to the handler, a request without the header or with a
\* header of the digest's length is answered 401, and with no secret every
\* request is handed to the handler.
C37_Kept ==
  \A p \in Procs :
    delivered[p] > 0 =>
      /\ (signingSecret # 0 /\ ~hist[p].signed) => ~hist[p].invoked
      /\ (signingSecret # 0 /\ ~hist[p].signed
           /\ Len(event[p].signature.value)
                 \in {0, Len(Hmac(signingSecret, event[p]))}) =>
            out[p].status = 401
      /\ signingSecret = 0 => hist[p].invoked

\* A request with a header shorter or longer than the digest was delivered.
C37_LengthDiffers ==
  \E p \in Procs :
    /\ delivered[p] > 0
    /\ signingSecret # 0
    /\ event[p].signature.present
    /\ Len(event[p].signature.value)
          \notin {0, Len(Hmac(signingSecret, event[p]))}

====
